---- MODULE Spec2Model ----
(***************************************************************************)
(* Model of the bbpy Blackboard client (src/blackboard/client.py and       *)
(* src/blackboard/auth.py): the pagination walkers, session validation,    *)
(* the refresh orchestration, the cache (.id) file updates and the         *)
(* per-course aggregations.                                                *)
(***************************************************************************)
EXTENDS Integers, Sequences, FiniteSets, TLC

VARIABLES
    \* ---- pagination walkers (SpecWalk) ----
    resp,          \* the page response the server gave to the latest request
    served,        \* number of requests of the walk the server has answered
    servedResults, \* history: the `results` array of every answered page
    w1,            \* the v1 walker  (BBClient._get_paginated)
    w2,            \* the v2 walker  (BBClient._get_paginated_v2)
    \* ---- client life cycle (Spec) ----
    fs,            \* the cache (.id) files on disk, by path
    clock,         \* datetime.now(), advanced by every timestamped write
    pc,            \* where the running constructor or refresh stands
    client,        \* the fields of the BBClient object
    error,         \* the exception the latest call ended with, or "none"
    h,             \* history of the running call: its arguments, the files
                   \* and session it started from, what it has invoked
    \* ---- per-course aggregations (SpecAgg) ----
    agg            \* the running aggregation: its listing walk, the loop
                   \* over the listed items, the result built so far

walkVars == <<resp, served, servedResults, w1, w2>>
clientVars == <<fs, clock, pc, client, error, h>>

vars == <<resp, served, servedResults, w1, w2, fs, clock, pc, client, error, h, agg>>

----------------------------------------------------------------------------
(* Bounds of the model *)

\* pages one walk may fetch before the model stops following it
MaxPages == 2
\* length, in tokens, of a nextPage URL
MaxUrlLen == 3
\* direct calls of _refresh_authentication on a constructed client
MaxRefreshes == 1

----------------------------------------------------------------------------
(* Strings.  A nextPage URL is a sequence of tokens: the 7-character       *)
(* pattern "offset=" is one token (it cannot overlap itself, so Python's   *)
(* left-to-right str.split on it equals a split on the token), "&" is one  *)
(* token and "7" stands for any other character.                           *)

OFFSET == "offset="
AMP == "&"
UrlTokens == {OFFSET, AMP, "7"}

RECURSIVE SeqsUpTo(_, _)
SeqsUpTo(S, n) ==
    IF n = 0 THEN {<<>>}
    ELSE LET shorter == SeqsUpTo(S, n - 1)
         IN shorter \cup {Append(s, x) : s \in shorter, x \in S}

Urls == SeqsUpTo(UrlTokens, MaxUrlLen)

\* Python `sub in s` for a one-token pattern
Contains(s, tok) == \E i \in 1..Len(s) : s[i] = tok

\* Python s.split(sep): the segments between the occurrences of sep
RECURSIVE Split(_, _)
Split(s, sep) ==
    IF ~Contains(s, sep) THEN <<s>>
    ELSE LET i == CHOOSE k \in 1..Len(s) :
                      s[k] = sep /\ \A j \in 1..(k - 1) : s[j] # sep
         IN <<SubSeq(s, 1, i - 1)>> \o Split(SubSeq(s, i + 1, Len(s)), sep)

\* a variant that keeps the text after the FIRST "offset=" (not what the code does)
ExtractOffsetFirst(next_page) ==
    Split(Split(next_page, OFFSET)[2], AMP)[1]

\* next_page.split("offset=")[-1].split("&")[0]
ExtractOffset(next_page) ==
    LET parts == Split(next_page, OFFSET)
    IN Split(parts[Len(parts)], AMP)[1]

----------------------------------------------------------------------------
(* HTTP responses and the two GET primitives *)

HTTP_OK == 200
HTTP_UNAUTHORIZED == 401

Records == {"r1", "r2"}
ResultArrays == {<<>>, <<"r1">>, <<"r2", "r1">>}

NoData == [hasResults |-> FALSE, results |-> <<>>, paging |-> "none", nextPage |-> <<>>]

\* JSON bodies of a paged listing: `results` present or not; `paging` absent
\* ("none"), present without nextPage ("noNext") or with a nextPage string
\* ("next", the empty string included).  The results and the nextPage are
\* handled independently by the walker, so each is varied against a fixed
\* choice of the other.
PageBodies ==
    {[hasResults |-> FALSE, results |-> <<>>, paging |-> pg, nextPage |-> np] :
        pg \in {"none"}, np \in {<<>>}}
    \cup {[hasResults |-> FALSE, results |-> <<>>, paging |-> "next", nextPage |-> <<OFFSET, "7">>]}
    \cup {[hasResults |-> TRUE, results |-> rs, paging |-> "noNext", nextPage |-> <<>>] :
        rs \in ResultArrays}
    \cup {[hasResults |-> TRUE, results |-> rs, paging |-> "next", nextPage |-> <<OFFSET, "7">>] :
        rs \in ResultArrays}
    \cup {[hasResults |-> TRUE, results |-> <<"r1">>, paging |-> "next", nextPage |-> np] :
        np \in Urls}

PageResponses ==
    {[kind |-> "http", status |-> HTTP_OK, data |-> b] : b \in PageBodies}
    \cup {[kind |-> "http", status |-> st, data |-> NoData] :
            st \in {HTTP_UNAUTHORIZED, 500}}
    \cup {[kind |-> "neterr", status |-> 0, data |-> NoData]}

NoErr == [raised |-> FALSE, hasStatus |-> FALSE, status_code |-> 0]
APIError(has, code) == [raised |-> TRUE, hasStatus |-> has, status_code |-> code]

\* BBClient._get: the JSON body on status 200, BBAPIError(status_code) on any
\* other status, BBAPIError without a status code on a transport failure
Get(r) ==
    IF r.kind = "neterr" THEN [ok |-> FALSE, data |-> NoData, err |-> APIError(FALSE, 0)]
    ELSE IF r.status = HTTP_OK THEN [ok |-> TRUE, data |-> r.data, err |-> NoErr]
    ELSE [ok |-> FALSE, data |-> NoData, err |-> APIError(TRUE, r.status)]

\* BBClient._get_v2
GetV2(r) ==
    IF r.kind = "neterr" THEN [ok |-> FALSE, data |-> NoData, err |-> APIError(FALSE, 0)]
    ELSE IF r.status = HTTP_OK THEN [ok |-> TRUE, data |-> r.data, err |-> NoErr]
    ELSE [ok |-> FALSE, data |-> NoData, err |-> APIError(TRUE, r.status)]

----------------------------------------------------------------------------
(* The pagination walkers *)

\* a walker: its position, the locals of the loop, and the history of the
\* `offset` parameter each GET carried
NoOffset == [has |-> FALSE, offset |-> <<>>]
WalkerInit ==
    [pc |-> "run", n |-> 0, all_results |-> <<>>, params |-> NoOffset,
     sent |-> <<>>, data |-> NoData, err |-> NoErr]

\* a variant that keeps only the latest page (not what the code does)
ExtendReplace(all_results, results) == results

\* all_results.extend(results)
Extend(all_results, results) == all_results \o results

\* data.get("results", [])
PageResults(data) == IF data.hasResults THEN data.results ELSE <<>>

\* data.get("paging", {}).get("nextPage"): None when either key is missing
HasNextPage(data) == data.paging = "next"

\* `not next_page`: None or the empty string
NoNextPage(data) == ~HasNextPage(data) \/ data.nextPage = <<>>

\* a variant that goes on with the old offset when no "offset=" is found
WalkIterationNoBreak(w, r) ==
    LET got == Get(r)
        gets == Append(w.sent, w.params)
    IN IF ~got.ok
       THEN [w EXCEPT !.pc = "raised", !.n = @ + 1, !.sent = gets, !.err = got.err]
       ELSE LET all == Extend(w.all_results, PageResults(got.data))
                base == [w EXCEPT !.n = @ + 1, !.sent = gets, !.data = got.data,
                                  !.all_results = all]
            IN IF NoNextPage(got.data) THEN [base EXCEPT !.pc = "done"]
               ELSE IF Contains(got.data.nextPage, OFFSET)
               THEN [base EXCEPT !.params =
                        [has |-> TRUE, offset |-> ExtractOffset(got.data.nextPage)]]
               ELSE base

\* one iteration of the `while True` loop of _get_paginated
WalkIteration(w, r) ==
    LET got == Get(r)
        gets == Append(w.sent, w.params)
    IN IF ~got.ok
       THEN [w EXCEPT !.pc = "raised", !.n = @ + 1, !.sent = gets, !.err = got.err]
       ELSE LET all == Extend(w.all_results, PageResults(got.data))
                base == [w EXCEPT !.n = @ + 1, !.sent = gets, !.data = got.data,
                                  !.all_results = all]
            IN IF NoNextPage(got.data) THEN [base EXCEPT !.pc = "done"]
               ELSE IF Contains(got.data.nextPage, OFFSET)
               THEN [base EXCEPT !.params =
                        [has |-> TRUE, offset |-> ExtractOffset(got.data.nextPage)]]
               ELSE [base EXCEPT !.pc = "done"]

\* the v2 walker with the first-occurrence extraction (not what the code does)
WalkIterationV2First(w, r) ==
    LET got == GetV2(r)
        gets == Append(w.sent, w.params)
    IN IF ~got.ok
       THEN [w EXCEPT !.pc = "raised", !.n = @ + 1, !.sent = gets, !.err = got.err]
       ELSE LET all == w.all_results \o (IF got.data.hasResults THEN got.data.results ELSE <<>>)
                base == [w EXCEPT !.n = @ + 1, !.sent = gets, !.data = got.data,
                                  !.all_results = all]
            IN IF got.data.paging # "next" \/ got.data.nextPage = <<>>
               THEN [base EXCEPT !.pc = "done"]
               ELSE IF Contains(got.data.nextPage, OFFSET)
               THEN [base EXCEPT !.params =
                        [has |-> TRUE, offset |-> ExtractOffsetFirst(got.data.nextPage)]]
               ELSE [base EXCEPT !.pc = "done"]

\* one iteration of the `while True` loop of _get_paginated_v2
WalkIterationV2(w, r) ==
    LET got == GetV2(r)
        gets == Append(w.sent, w.params)
    IN IF ~got.ok
       THEN [w EXCEPT !.pc = "raised", !.n = @ + 1, !.sent = gets, !.err = got.err]
       ELSE LET all == w.all_results \o (IF got.data.hasResults THEN got.data.results ELSE <<>>)
                base == [w EXCEPT !.n = @ + 1, !.sent = gets, !.data = got.data,
                                  !.all_results = all]
            IN IF got.data.paging # "next" \/ got.data.nextPage = <<>>
               THEN [base EXCEPT !.pc = "done"]
               ELSE IF Contains(got.data.nextPage, OFFSET)
               THEN [base EXCEPT !.params =
                        [has |-> TRUE,
                         offset |-> LET parts == Split(got.data.nextPage, OFFSET)
                                    IN Split(parts[Len(parts)], AMP)[1]]]
               ELSE [base EXCEPT !.pc = "done"]

\* The server answers the k-th request of a listing with the same response
\* whichever walker asks: the walker that is behind receives the response the
\* other one got, the walker in front receives a fresh one.
Answer(w, other, r) ==
    /\ w.pc = "run"
    /\ w.n < MaxPages
    /\ IF w.n < served
       THEN /\ r = resp
            /\ UNCHANGED <<resp, served, servedResults>>
       ELSE /\ other.pc = "run" => other.n = served
            /\ resp' = r
            /\ served' = served + 1
            /\ servedResults' = Append(servedResults,
                   IF r.kind = "http" /\ r.status = HTTP_OK /\ r.data.hasResults
                   THEN r.data.results ELSE <<>>)

WalkV1 ==
    \E r \in PageResponses :
        /\ Answer(w1, w2, r)
        /\ w1' = WalkIteration(w1, r)
        /\ UNCHANGED w2

WalkV2 ==
    \E r \in PageResponses :
        /\ Answer(w2, w1, r)
        /\ w2' = WalkIterationV2(w2, r)
        /\ UNCHANGED w1

----------------------------------------------------------------------------
(* Python values *)

\* None, for the optional strings (username, password, id_path, ids)
None == "None"

\* truthiness of an optional string: neither None nor ""
Truthy(x) == x # None /\ x # ""

\* str.upper() on the user names of the model
Upper(x) == IF x = "u1" THEN "U1" ELSE IF x = "ada" THEN "ADA" ELSE x

\* str.lower() on the attendance statuses of the model
Lower(x) ==
    IF x \in {"Present", "PRESENT"} THEN "present"
    ELSE IF x \in {"Absent", "ABSENT"} THEN "absent"
    ELSE IF x \in {"Late", "LATE"} THEN "late"
    ELSE IF x \in {"Excused", "EXCUSED"} THEN "excused"
    ELSE IF x = "Justified" THEN "justified"
    ELSE x

----------------------------------------------------------------------------
(* The cache (.id) file *)

CfgPath == "cfg.id"
\* f"{username}.id"
DefaultIdFile(u) == IF u = "u1" THEN "u1.id" ELSE "U1.id"
Paths == {CfgPath, "u1.id", "U1.id"}

Cookie(v) == [name |-> "BbRouter", value |-> v, domain |-> "", path |-> "/"]

NoCreds == [has |-> FALSE, username |-> None, password |-> None]
Creds(u, p) == [has |-> TRUE, username |-> u, password |-> p]

NoMetric == [has |-> FALSE, flag |-> FALSE, value |-> 0]
Metric(f, v) == [has |-> TRUE, flag |-> f, value |-> v]

\* Course names and course codes are texts: sequences of tokens in which the
\* separator "__" is one token.  NoText is None for a text.
SEP == "__"
NoText == <<None>>

\* A person's full name is the sequence of its non-empty parts (given, family),
\* which is what f"{given} {family}".strip() keeps of them.
NoUser == [name |-> <<>>, username |-> "", email |-> "", class |-> NoText]

\* a course record of the file; a key the record lacks is None
FileCourse(nm, code, iid, url, profs) ==
    [name |-> nm, course_id |-> code, internal_id |-> iid, url |-> url,
     professors |-> profs, id |-> None, courseId |-> NoText, externalAccessUrl |-> None]

\* a course dict as the API returns it (GET /courses/{id}); it has no
\* `internal_id`, `course_id`, `url` or `professors` key
ApiCourse(nm, cid, iid, url) ==
    [name |-> nm, course_id |-> NoText, internal_id |-> None, url |-> None,
     professors |-> <<>>, id |-> iid, courseId |-> cid, externalAccessUrl |-> url]

\* valid_json is whether json.load accepts the content of the file
NoFile ==
    [exists |-> FALSE, valid_json |-> TRUE, generated_at |-> 0, updated_at |-> 0,
     cookies |-> <<>>, credentials |-> NoCreds, user |-> NoUser, courses |-> <<>>,
     nerd |-> NoMetric, attending |-> NoMetric]

\* the files a previous run of the program can have left: written by
\* save_id_file (generated_at set, credentials both or absent), with the
\* metrics null or filled in by is_nerd / is_attending; an older file has a
\* course without internal_id
OldUser == [name |-> <<"Ada", "Old">>, username |-> "u1", email |-> "ada@x", class |-> <<"4SAE11">>]
CourseA == FileCourse(<<"Gestion">>, <<"ESE.PR-01">>, "_1_1", "http://x/_1_1", <<<<"Prof", "A">>>>)
CourseOld == FileCourse(<<"Maths">>, <<"ESE.MA-02">>, None, "", <<>>)

StoredFiles ==
    {[exists |-> TRUE, valid_json |-> TRUE, generated_at |-> 1, updated_at |-> 0,
      cookies |-> <<Cookie(0)>>,
      credentials |-> cr, user |-> OldUser, courses |-> cs, nerd |-> m[1], attending |-> m[2]] :
        cr \in {NoCreds, Creds("U1", "pw")},
        cs \in {<<CourseA>>, <<CourseOld, CourseA>>},
        m \in {<<NoMetric, NoMetric>>, <<Metric(TRUE, 50), Metric(FALSE, 5000)>>}}

\* a file whose content is not JSON
MalformedFile == [NoFile EXCEPT !.exists = TRUE, !.valid_json = FALSE]

\* The legacy form of `cookies` is a mapping name -> value.  It is modelled as
\* the sequence of its items in the order of the mapping, each item having no
\* domain and no path key (None): a mapping is what is not a list of cookie
\* objects.
Pair(n, v) == [name |-> n, value |-> v, domain |-> None, path |-> None]
IsList(cookies) == \A i \in 1..Len(cookies) : cookies[i].domain # None

\* the list-of-objects form of the name/value pairs of a mapping
ListForm(cookies) ==
    [i \in 1..Len(cookies) |->
        [name |-> cookies[i].name, value |-> cookies[i].value, domain |-> "", path |-> "/"]]

\* a file of the legacy format: its cookies are a mapping, its courses have
\* no internal_id
LegacyFile ==
    [exists |-> TRUE, valid_json |-> TRUE, generated_at |-> 1, updated_at |-> 0,
     cookies |-> <<Pair("JSESSIONID", 7), Pair("BbRouter", 0)>>,
     credentials |-> Creds("U1", "pw"), user |-> OldUser, courses |-> <<CourseOld>>,
     nerd |-> NoMetric, attending |-> NoMetric]

----------------------------------------------------------------------------
(* The client object *)

NoSession == [has |-> FALSE, cookies |-> <<>>]
NoCache == [has |-> FALSE, generated_at |-> 0, user |-> NoUser, courses |-> <<>>,
            credentials |-> NoCreds]

NewClient ==
    [session |-> NoSession, user_id |-> None, username |-> None, password |-> None,
     id_path |-> None, auto_refresh |-> TRUE, cached_data |-> NoCache]

NoArgs == [id_path |-> None, username |-> None, password |-> None, auto_refresh |-> TRUE]

NoProbe == [kind |-> "none", status |-> 0, data |-> [id |-> None]]

NoLoadError == [kind |-> "none", what |-> "none", file |-> None]

NewHistory ==
    [op |-> "none", args |-> NoArgs, fs0 |-> [p \in Paths |-> NoFile],
     session0 |-> NoSession, initBranch |-> "none", initProbe |-> "none",
     refreshCalls |-> 0, loginCalls |-> 0, apiCalls |-> 0,
     probe |-> NoProbe, validation |-> "none", loginResult |-> "none",
     revalidation |-> "none", wrote |-> "none",
     stats |-> "none", nerdOfFile |-> NoMetric, attendingOfFile |-> NoMetric,
     refreshes |-> 0, loadError |-> NoLoadError, parsed |-> <<>>]

\* session.cookies.set(name, value, domain, path): a cookie of the same
\* domain, path and name is replaced, any other is added
JarSet(jar, c) ==
    IF \E i \in 1..Len(jar) :
          jar[i].name = c.name /\ jar[i].domain = c.domain /\ jar[i].path = c.path
    THEN [i \in 1..Len(jar) |->
            IF jar[i].name = c.name /\ jar[i].domain = c.domain /\ jar[i].path = c.path
            THEN c ELSE jar[i]]
    ELSE Append(jar, c)

RECURSIVE JarOf(_, _)
JarOf(jar, cookies) ==
    IF cookies = <<>> THEN jar ELSE JarOf(JarSet(jar, Head(cookies)), Tail(cookies))

\* a variant without the branch for the legacy mapping
LoadSessionListOnly(file) ==
    [has |-> TRUE,
     cookies |-> JarOf(<<>>, SelectSeq(file.cookies, LAMBDA c : c.domain # None))]

\* load_id_file on a readable file: a session holding the file's cookies,
\* set with their domain and path (list form) or by name and value alone
\* (legacy mapping; the jar then gives them domain "" and path "/")
LoadSession(file) ==
    [has |-> TRUE,
     cookies |-> IF IsList(file.cookies)
                 THEN JarOf(<<>>, file.cookies)
                 ELSE JarOf(<<>>, ListForm(file.cookies))]

\* load_id_file: the cached profile {generated_at, user, courses, credentials}
LoadCachedData(file) ==
    [has |-> TRUE, generated_at |-> file.generated_at, user |-> file.user,
     courses |-> file.courses, credentials |-> file.credentials]

\* a variant that treats a file it cannot parse as an absent one
LoadIdFileLenient(file, id_path) ==
    IF ~file.exists \/ ~file.valid_json
    THEN [ok |-> TRUE, session |-> NoSession, cached_data |-> NoCache, err |-> NoLoadError]
    ELSE [ok |-> TRUE, session |-> LoadSession(file), cached_data |-> LoadCachedData(file),
          err |-> NoLoadError]

\* load_id_file: FileNotFoundError and json.JSONDecodeError become a
\* BBAuthError whose message names id_path
LoadIdFile(file, id_path) ==
    IF ~file.exists
    THEN [ok |-> FALSE, session |-> NoSession, cached_data |-> NoCache,
          err |-> [kind |-> "AuthError", what |-> "not_found", file |-> id_path]]
    ELSE IF ~file.valid_json
    THEN [ok |-> FALSE, session |-> NoSession, cached_data |-> NoCache,
          err |-> [kind |-> "AuthError", what |-> "invalid_format", file |-> id_path]]
    ELSE [ok |-> TRUE, session |-> LoadSession(file), cached_data |-> LoadCachedData(file),
          err |-> NoLoadError]

----------------------------------------------------------------------------
(* Session validation and the refresh decisions *)

ProbeResponses ==
    {[kind |-> "http", status |-> HTTP_OK, data |-> [id |-> i]] : i \in {"_u1", "_u2"}}
    \cup {[kind |-> "http", status |-> st, data |-> [id |-> None]] :
            st \in {HTTP_UNAUTHORIZED, 500}}
    \cup {[kind |-> "neterr", status |-> 0, data |-> [id |-> None]]}

\* a variant that lets the BBAPIError of a non-401 failure through
ValidateAuthLeaky(user_id, r) ==
    LET got == Get(r)
    IN IF got.ok THEN [ok |-> TRUE, user_id |-> got.data.id, err |-> "none"]
       ELSE IF got.err.hasStatus /\ got.err.status_code = HTTP_UNAUTHORIZED
       THEN [ok |-> FALSE, user_id |-> user_id, err |-> "AuthError:expired"]
       ELSE [ok |-> FALSE, user_id |-> user_id, err |-> "APIError"]

\* BBClient._validate_auth: the probe GET /users/me; its `id` becomes
\* self._user_id, a BBAPIError becomes a BBAuthError
ValidateAuth(user_id, r) ==
    LET got == Get(r)
    IN IF got.ok THEN [ok |-> TRUE, user_id |-> got.data.id, err |-> "none"]
       ELSE IF got.err.hasStatus /\ got.err.status_code = HTTP_UNAUTHORIZED
       THEN [ok |-> FALSE, user_id |-> user_id, err |-> "AuthError:expired"]
       ELSE [ok |-> FALSE, user_id |-> user_id, err |-> "AuthError:validation_failed"]

\* __init__: `if stored_creds and not self._username:` take both stored values
RecoverCredentials(stored, username, password) ==
    IF stored.has /\ ~Truthy(username)
    THEN [username |-> stored.username, password |-> stored.password]
    ELSE [username |-> username, password |-> password]

\* a variant that refreshes whatever auto_refresh says
AutoRefreshesAlways(auto_refresh, username, password) ==
    Truthy(username) /\ Truthy(password)

\* __init__: `if auto_refresh and self._username and self._password:`
AutoRefreshes(auto_refresh, username, password) ==
    auto_refresh /\ Truthy(username) /\ Truthy(password)

\* a variant that attempts the re-login only for an expired (401) session
InitOnAuthErrorExpiredOnly(e, auto_refresh, username, password) ==
    IF e = "AuthError:expired" /\ AutoRefreshes(auto_refresh, username, password)
    THEN "refresh" ELSE "raise"

\* __init__: the `except BBAuthError as e:` handler; e only goes into the
\* message of the re-raised error
InitOnAuthError(e, auto_refresh, username, password) ==
    IF AutoRefreshes(auto_refresh, username, password) THEN "refresh" ELSE "raise"

\* a variant that renews the session at every construction that can log in
InitOnValidSessionRenew(auto_refresh, username, password) ==
    IF AutoRefreshes(auto_refresh, username, password) THEN "refresh" ELSE "ready"

\* __init__: `try: self._validate_auth()` returning normally ends the
\* constructor, whatever auto_refresh and the credentials are
InitOnValidSession(auto_refresh, username, password) == "ready"

\* a variant that only asks for the username
RefreshPreconditionUserOnly(username, password) == Truthy(username)

\* _refresh_authentication: `if not self._username or not self._password: raise`
RefreshPrecondition(username, password) == Truthy(username) /\ Truthy(password)

\* a variant that goes back to the login when the new session fails validation
AfterRevalidationRetry(ok) == IF ok THEN "write" ELSE "login"

\* _refresh_authentication: self._validate_auth() on the new session; its
\* BBAuthError is not caught
AfterRevalidation(ok) == IF ok THEN "write" ELSE "fail"

\* a variant that rewrites the file with the cookies alone
UpdateIdFileCookiesOnly(file, session, now) ==
    [NoFile EXCEPT !.exists = TRUE, !.cookies = session.cookies, !.updated_at = now]

\* update_id_file_cookies: id_data["cookies"], id_data["updated_at"] replaced,
\* the rest of id_data written back as read
UpdateIdFileCookies(file, session, now) ==
    [file EXCEPT !.cookies = session.cookies, !.updated_at = now]

----------------------------------------------------------------------------
(* Full regeneration of the cache file *)

Range(f) == {f[i] : i \in DOMAIN f}

\* f"{given} {family}".strip()
FullName(given, family) == SelectSeq(<<given, family>>, LAMBDA x : x # "")

\* parse_course_info
ParseCourseInfo(course_name, course_id) ==
    LET parts == Split(course_name, SEP)
    IN [name |-> IF Contains(course_name, SEP) THEN parts[1] ELSE course_name,
        class_name |-> IF Contains(course_name, SEP)
                       THEN (IF Len(parts) > 1 THEN parts[2] ELSE NoText)
                       ELSE NoText,
        course_id |-> IF Contains(course_id, SEP) THEN Split(course_id, SEP)[1]
                      ELSE course_id]

\* the class label taken from the first course: name.split("__")[1]
ClassOfFirst(courses) ==
    IF courses # <<>> /\ Contains(courses[1].name, SEP)
    THEN Split(courses[1].name, SEP)[2] ELSE NoText

\* save_id_file: instructor_lookup[course_name_full], the professors' full
\* names in order, empty names and repetitions left out
RECURSIVE ProfessorsOf(_, _, _)
ProfessorsOf(instructors, course_name_full, acc) ==
    IF instructors = <<>> THEN acc
    ELSE LET i == Head(instructors)
             prof == FullName(i.name.given, i.name.family)
             add == /\ i.course.name = course_name_full
                    /\ prof # <<>>
                    /\ prof \notin Range(acc)
         IN ProfessorsOf(Tail(instructors), course_name_full,
                         IF add THEN Append(acc, prof) ELSE acc)

\* save_id_file: the courses list of the file
CoursesData(courses, instructors) ==
    [k \in 1..Len(courses) |->
        LET course == courses[k]
            parsed == ParseCourseInfo(course.name, course.courseId)
        IN FileCourse(parsed.name, parsed.course_id, course.id,
                      course.externalAccessUrl,
                      ProfessorsOf(instructors, course.name, <<>>))]

\* save_id_file: the record written to id_path.  The `username` parameter is
\* overwritten by user_data["userName"] before the credentials are built.
SaveIdFile(session, user_data, courses, instructors, username, password, now) ==
    LET uname == user_data.userName
    IN [exists |-> TRUE,
        valid_json |-> TRUE,
        generated_at |-> now,
        updated_at |-> 0,
        cookies |-> session.cookies,
        credentials |-> IF Truthy(uname) /\ Truthy(password)
                        THEN Creds(Upper(uname), password) ELSE NoCreds,
        user |-> [name |-> FullName(user_data.given, user_data.family),
                  username |-> uname,
                  email |-> user_data.email,
                  class |-> ClassOfFirst(courses)],
        courses |-> CoursesData(courses, instructors),
        nerd |-> NoMetric,
        attending |-> NoMetric]

\* generate_id_file: self._cached_data after the file is saved; `courses` are
\* the course dicts as fetched, and there is no generated_at key
GeneratedCachedData(user_data, courses, username, password) ==
    [has |-> TRUE,
     generated_at |-> 0,
     user |-> [name |-> FullName(user_data.given, user_data.family),
               username |-> user_data.userName,
               email |-> user_data.email,
               class |-> ClassOfFirst(courses)],
     courses |-> courses,
     credentials |-> IF Truthy(username) THEN Creds(username, password) ELSE NoCreds]

\* what the server can return to generate_id_file
UserDatas ==
    {[given |-> "Ada", family |-> "New", userName |-> un, email |-> "ada@y"] :
        un \in {"u1", "ada", ""}}
ApiCourseLists ==
    {<<>>,
     <<ApiCourse(<<"Reseaux", SEP, "4SAE11", SEP, "TP">>,
                 <<"ESE.RX-04", SEP, "4SAE11", SEP, "TP">>, "_2_1", "http://x/_2_1")>>,
     <<ApiCourse(<<"Gestion", SEP, "4SAE11">>, <<"ESE.PR-01", SEP, "4SAE11">>,
                 "_1_1", "http://x/_1_1"),
       ApiCourse(<<"Algo">>, <<"ESE.AL-03">>, "_2_1", "http://x/_2_1")>>}
InstructorLists ==
    {<<>>,
     <<[name |-> [given |-> "Prof", family |-> "B"],
        course |-> [name |-> <<"Gestion", SEP, "4SAE11">>]],
       [name |-> [given |-> "", family |-> ""],
        course |-> [name |-> <<"Algo">>]],
       [name |-> [given |-> "Prof", family |-> "B"],
        course |-> [name |-> <<"Gestion", SEP, "4SAE11">>]]>>}

----------------------------------------------------------------------------
(* Engagement metrics *)

\* round(num / den, 2) in hundredths, for den > 0: the nearest hundredth (a
\* tie, which needs den to be a multiple of 8, goes to the even one)
Round2(num, den) ==
    LET q == (100 * num) \div den
        r == (100 * num) % den
    IN IF 2 * r < den THEN q
       ELSE IF 2 * r > den THEN q + 1
       ELSE IF q % 2 = 0 THEN q ELSE q + 1

\* a variant that looks at the submission before the zero grade
ClassifyAssignmentSubmittedFirst(a) ==
    IF a.submitted
    THEN (IF ~a.is_past_due THEN "on_time" ELSE "late")
    ELSE IF a.graded /\ a.hasScore /\ a.score = 0 THEN "missed"
    ELSE IF a.is_past_due /\ ~a.accepts_late THEN "missed"
    ELSE "available"

\* get_course_assignment_stats: the class of one assignment
ClassifyAssignment(a) ==
    IF a.graded /\ a.hasScore /\ a.score = 0 THEN "missed"
    ELSE IF a.submitted
    THEN (IF ~a.is_past_due THEN "on_time" ELSE "late")
    ELSE IF a.is_past_due /\ ~a.accepts_late THEN "missed"
    ELSE "available"

CountClass(assignments, cls) ==
    Cardinality({i \in 1..Len(assignments) : ClassifyAssignment(assignments[i]) = cls})

\* get_course_assignment_stats
CourseAssignmentStats(course_id, assignments) ==
    LET total == Len(assignments)
        on_time == CountClass(assignments, "on_time")
    IN [course_id |-> course_id, total |-> total, on_time |-> on_time,
        late |-> CountClass(assignments, "late"),
        missed |-> CountClass(assignments, "missed"),
        available |-> CountClass(assignments, "available"),
        on_time_rate |-> IF total > 0 THEN Round2(on_time, total) ELSE 0]

\* a variant that matches a course without internal_id to a course of the server
WithInternalIdMatched(courses) ==
    [k \in 1..Len(courses) |->
        IF Truthy(courses[k].internal_id) THEN courses[k]
        ELSE [courses[k] EXCEPT !.internal_id = "_2_1"]]

\* the courses a per-course iteration visits: those with an internal_id
WithInternalId(courses) == SelectSeq(courses, LAMBDA c : Truthy(c.internal_id))

RECURSIVE SumOver(_, _)
SumOver(stats, field) ==
    IF stats = <<>> THEN 0 ELSE Head(stats)[field] + SumOver(Tail(stats), field)

\* the overall counts of get_assignment_stats when no profile is cached: the
\* result then has the key on_time_rate alone
NoOverall == [total |-> 0, on_time |-> 0, late |-> 0, missed |-> 0, available |-> 0]

\* a variant whose overall counts are those of the last course visited
AssignmentStatsLastCourse(cached_data, assignmentsOf) ==
    IF ~cached_data.has
    THEN [courses |-> <<>>, overall |-> NoOverall, on_time_rate |-> 0]
    ELSE LET visited == WithInternalId(cached_data.courses)
             course_stats == [k \in 1..Len(visited) |->
                 CourseAssignmentStats(visited[k].internal_id,
                                       assignmentsOf[visited[k].internal_id])]
             last == IF course_stats = <<>> THEN NoOverall
                     ELSE course_stats[Len(course_stats)]
         IN [courses |-> course_stats,
             overall |-> [total |-> last.total, on_time |-> last.on_time,
                          late |-> last.late, missed |-> last.missed,
                          available |-> last.available],
             on_time_rate |-> IF last.total > 0 THEN Round2(last.on_time, last.total) ELSE 0]

\* get_assignment_stats; assignmentsOf[id] is what get_course_assignments
\* returns for the course
AssignmentStats(cached_data, assignmentsOf) ==
    IF ~cached_data.has
    THEN [courses |-> <<>>, overall |-> NoOverall, on_time_rate |-> 0]
    ELSE LET visited == WithInternalId(cached_data.courses)
             course_stats == [k \in 1..Len(visited) |->
                 CourseAssignmentStats(visited[k].internal_id,
                                       assignmentsOf[visited[k].internal_id])]
             total_all == SumOver(course_stats, "total")
             on_time_all == SumOver(course_stats, "on_time")
         IN [courses |-> course_stats,
             overall |-> [total |-> total_all, on_time |-> on_time_all,
                          late |-> SumOver(course_stats, "late"),
                          missed |-> SumOver(course_stats, "missed"),
                          available |-> SumOver(course_stats, "available")],
             on_time_rate |-> IF total_all > 0 THEN Round2(on_time_all, total_all) ELSE 0]

NERD_THRESHOLD == 45
ATTENDING_THRESHOLD == 6000

\* is_nerd: on_time_rate > 0.45, the rate in hundredths
IsNerd(on_time_rate) == on_time_rate > NERD_THRESHOLD

\* a variant that compares the statuses as they are spelled
CourseAttendanceCaseSensitive(course_id, statuses) ==
    LET total == Len(statuses)
        present == Cardinality({i \in 1..total : statuses[i] \in {"present", "late", "excused"}})
    IN [course_id |-> course_id, total |-> total, present |-> present,
        absent |-> Cardinality({i \in 1..total : statuses[i] = "absent"}),
        percentage |-> IF total > 0 THEN Round2(100 * present, total) ELSE 0]

\* get_course_attendance_percentage: the counts of one course, over
\* record.get("status", "").lower() of its records
CourseAttendance(course_id, statuses) ==
    LET total == Len(statuses)
        status(i) == Lower(statuses[i])
        present == Cardinality({i \in 1..total : status(i) \in {"present", "late", "excused"}})
    IN [course_id |-> course_id, total |-> total, present |-> present,
        absent |-> Cardinality({i \in 1..total : status(i) = "absent"}),
        percentage |-> IF total > 0 THEN Round2(100 * present, total) ELSE 0]

\* a variant for which no meeting at all is full attendance
AttendancePercentageVacuous(cached_data, statusesOf) ==
    IF ~cached_data.has
    THEN [courses |-> <<>>, overall |-> [present |-> 0, absent |-> 0, total |-> 0],
          percentage |-> 0]
    ELSE LET visited == WithInternalId(cached_data.courses)
             course_stats == [k \in 1..Len(visited) |->
                 CourseAttendance(visited[k].internal_id,
                                  statusesOf[visited[k].internal_id])]
             total_present == SumOver(course_stats, "present")
             total_meetings == SumOver(course_stats, "total")
         IN [courses |-> course_stats,
             overall |-> [present |-> total_present,
                          absent |-> SumOver(course_stats, "absent"),
                          total |-> total_meetings],
             percentage |-> IF total_meetings > 0
                            THEN Round2(100 * total_present, total_meetings) ELSE 10000]

\* get_attendance_percentage; statusesOf[id] are the statuses of the course's
\* attendance records; the percentage is in hundredths of a percent
AttendancePercentage(cached_data, statusesOf) ==
    IF ~cached_data.has
    THEN [courses |-> <<>>, overall |-> [present |-> 0, absent |-> 0, total |-> 0],
          percentage |-> 0]
    ELSE LET visited == WithInternalId(cached_data.courses)
             course_stats == [k \in 1..Len(visited) |->
                 CourseAttendance(visited[k].internal_id,
                                  statusesOf[visited[k].internal_id])]
             total_present == SumOver(course_stats, "present")
             total_meetings == SumOver(course_stats, "total")
         IN [courses |-> course_stats,
             overall |-> [present |-> total_present,
                          absent |-> SumOver(course_stats, "absent"),
                          total |-> total_meetings],
             percentage |-> IF total_meetings > 0
                            THEN Round2(100 * total_present, total_meetings) ELSE 0]

\* is_attending: percentage > 60
IsAttending(percentage) == percentage > ATTENDING_THRESHOLD

CourseIds == {"_1_1", "_2_1"}

Assignment(sub, past, late_ok, gr, has, sc) ==
    [submitted |-> sub, is_past_due |-> past, accepts_late |-> late_ok,
     graded |-> gr, hasScore |-> has, score |-> sc]

\* what get_course_assignments can return for a course
AssignmentLists ==
    {<<>>,
     <<Assignment(TRUE, FALSE, TRUE, TRUE, TRUE, 15)>>,
     <<Assignment(TRUE, TRUE, TRUE, FALSE, FALSE, 0),
       Assignment(TRUE, FALSE, TRUE, TRUE, TRUE, 0),
       Assignment(FALSE, TRUE, FALSE, FALSE, FALSE, 0)>>}

\* the statuses of the attendance records of a course
StatusLists ==
    {<<>>,
     <<"present", "absent", "present", "unknown">>,
     <<"late", "excused", "present">>}

\* is_nerd / is_attending: the file after the read-modify-write of the metric
WithNerd(file, flag, rate) == [file EXCEPT !.nerd = Metric(flag, rate)]
WithAttending(file, flag, pct) == [file EXCEPT !.attending = Metric(flag, pct)]

----------------------------------------------------------------------------
(* Per-course aggregations: a paged listing, then one iteration of the     *)
(* loop per listed item, each with its own enrichment fetch                *)

\* the state of an aggregation: the operation, its position (idle, list,
\* items, done, raised), the walker of its listing, the listed items, the
\* index of the next item, the result list, the error raised to the caller,
\* and the history of what each iteration received from the server
NoStats == [course_id |-> None, total |-> 0, on_time |-> 0, late |-> 0, missed |-> 0,
            available |-> 0, on_time_rate |-> 0]
NewAggregation ==
    [op |-> "none", pc |-> "idle", w |-> WalkerInit, items |-> <<>>, i |-> 1,
     out |-> <<>>, err |-> NoErr, listing |-> "none", log |-> <<>>, stats |-> NoStats]

\* the pages of a listing: `results` one of the given arrays, with or without
\* a nextPage; or a failure of the request
ListingResponses(arrays) ==
    {[kind |-> "http", status |-> HTTP_OK,
      data |-> [hasResults |-> TRUE, results |-> rs, paging |-> pg[1], nextPage |-> pg[2]]] :
        rs \in arrays, pg \in {<<"noNext", <<>>>>, <<"next", <<OFFSET, "7">>>>}}
    \cup {[kind |-> "http", status |-> 500, data |-> NoData],
          [kind |-> "neterr", status |-> 0, data |-> NoData]}

\* responses of a detail fetch: one of the given bodies, or a failure
DetailResponses(bodies) ==
    {[kind |-> "http", status |-> HTTP_OK, data |-> b] : b \in bodies}
    \cup {[kind |-> "http", status |-> 404, data |-> NoData],
          [kind |-> "neterr", status |-> 0, data |-> NoData]}

NoResponse == [kind |-> "none", status |-> 0, data |-> NoData]

\* the listing is still being paged and the model follows it
Listing(op) ==
    /\ agg.pc = "idle" \/ (agg.op = op /\ agg.pc = "list")
    /\ (agg.pc = "list") => (agg.w.n < MaxPages)

\* the walker of the listing before its next page
ListingWalker == IF agg.pc = "idle" THEN WalkerInit ELSE agg.w

\* the listing went through: the loop over its results starts
StartItems(a, w) ==
    [a EXCEPT !.w = w, !.listing = "ok", !.items = w.all_results,
              !.pc = IF w.all_results = <<>> THEN "done" ELSE "items"]

\* `for x in items:` — the next item, or the return after the last one
NextItem(a) ==
    [a EXCEPT !.i = @ + 1, !.pc = IF a.i + 1 > Len(a.items) THEN "done" ELSE "items"]

\* ---- get_enrolled_courses ----

Membership(cid) == [courseId |-> cid]
MembershipArrays ==
    {<<>>, <<Membership("c1")>>, <<Membership("c2")>>, <<Membership(None)>>}

\* GET /courses/{course_id}: the course, with or without an externalAccessUrl
CourseBodies(cid) ==
    {[id |-> cid, externalAccessUrl |-> u] : u \in {None, "", "http://x"}}

\* a variant that takes the presence of the key for enrolment
IsEnrolledHasKey(course) == course.externalAccessUrl # None

\* get_enrolled_courses: `if course.get("externalAccessUrl"):`
IsEnrolled(course) == Truthy(course.externalAccessUrl)

\* get_enrolled_courses: self._get_paginated(...) is not inside a try, its
\* BBAPIError leaves the method
EnrolledAfterPage(a, w) ==
    IF w.pc = "raised" THEN [a EXCEPT !.w = w, !.listing = "failed", !.pc = "raised", !.err = w.err]
    ELSE IF w.pc = "done" THEN StartItems(a, w)
    ELSE [a EXCEPT !.w = w, !.pc = "list"]

\* get_enrolled_courses: memberships = self._get_paginated(...), page by page
EnrolledList ==
    /\ Listing("enrolled")
    /\ \E r \in ListingResponses(MembershipArrays) :
        agg' = EnrolledAfterPage([agg EXCEPT !.op = "enrolled"],
                                 WalkIteration(ListingWalker, r))

\* get_enrolled_courses: one iteration of `for membership in memberships`
EnrolledItem ==
    /\ agg.op = "enrolled" /\ agg.pc = "items"
    /\ LET membership == agg.items[agg.i]
           course_id == membership.courseId
       IN IF ~Truthy(course_id)
          THEN agg' = NextItem([agg EXCEPT !.log = Append(@, NoResponse)])
          ELSE \E r \in DetailResponses(CourseBodies(course_id)) :
                LET got == Get(r)
                    seen == [agg EXCEPT !.log = Append(@, r)]
                IN agg' = NextItem(
                     IF got.ok /\ IsEnrolled(got.data)
                     THEN [seen EXCEPT !.out = Append(@,
                             [course |-> got.data, membership |-> membership])]
                     ELSE seen)

\* ---- _get_course_instructors_single ----

Member(role) ==
    [courseRoleId |-> role, userId |-> "_p1", name |-> [given |-> "M", family |-> role]]
\* the role of a member; "" is what member.get("courseRoleId", "") gives a
\* member without the key
MemberRoles ==
    {"Instructor", "TeachingAssistant", "Grader", "CourseBuilder", "Student", ""}
MemberArrays == {<<>>} \cup {<<Member(role)>> : role \in MemberRoles}

\* GET /users/{user_id}
UserBodies(uid) == {[id |-> uid, name |-> [given |-> "Full", family |-> "Name"]]}

\* `if role in ["Instructor", "TeachingAssistant", "Grader", "CourseBuilder"]:`
IsInstructorRole(role) ==
    role \in {"Instructor", "TeachingAssistant", "Grader", "CourseBuilder"}

\* the record appended when the user details were fetched: user_data with
\* user_data["courseRole"] = role
FullInstructor(user_data, role) ==
    [full |-> TRUE, id |-> user_data.id, userId |-> None, courseRole |-> role,
     name |-> user_data.name]

\* a variant that leaves out an instructor whose details cannot be fetched
InstructorFallbackDrop(out, member) == out

\* `except BBAPIError:` of the details fetch: {userId, courseRole, name} from
\* the membership
InstructorFallback(out, member) ==
    Append(out, [full |-> FALSE, id |-> None, userId |-> member.userId,
                 courseRole |-> member.courseRoleId, name |-> member.name])

\* a BBAPIError of the listing is caught by the outer try: `return []`
ReturnEmptyAfterPage(a, w) ==
    IF w.pc = "raised"
    THEN [a EXCEPT !.w = w, !.listing = "failed", !.pc = "done", !.out = <<>>]
    ELSE IF w.pc = "done" THEN StartItems(a, w)
    ELSE [a EXCEPT !.w = w, !.pc = "list"]

\* _get_course_instructors_single: memberships = self._get_paginated(...)
InstructorsList ==
    /\ Listing("instructors")
    /\ \E r \in ListingResponses(MemberArrays) :
        agg' = ReturnEmptyAfterPage([agg EXCEPT !.op = "instructors"],
                                    WalkIteration(ListingWalker, r))

\* _get_course_instructors_single: one iteration of `for member in memberships`
InstructorsItem ==
    /\ agg.op = "instructors" /\ agg.pc = "items"
    /\ LET member == agg.items[agg.i]
           role == member.courseRoleId
       IN IF ~IsInstructorRole(role)
          THEN agg' = NextItem([agg EXCEPT !.log = Append(@, NoResponse)])
          ELSE \E r \in DetailResponses(UserBodies(member.userId)) :
                LET got == Get(r)
                IN agg' = NextItem(
                     [agg EXCEPT !.log = Append(@, r),
                                 !.out = IF got.ok
                                         THEN Append(@, FullInstructor(got.data, role))
                                         ELSE InstructorFallback(@, member)])

\* ---- _get_course_attendance ----

Meeting(id) == [id |-> id]
MeetingArrays == {<<>>, <<Meeting("mt1")>>, <<Meeting("mt2")>>}

\* GET /courses/{course_id}/meetings/{meeting_id}/users/{user_id}
AttendanceBodies(mid) ==
    {[meetingId |-> mid, status |-> st] :
        st \in {"Present", "absent", "ABSENT", "late", "Excused", "Justified"}}

\* the server's record, with attendance["meeting"] = meeting
ServerAttendance(attendance, meeting) ==
    [meeting |-> meeting, status |-> attendance.status, record |-> attendance.meetingId]

\* a variant that leaves out a meeting without a record
AttendanceFallbackOmit(records, meeting) == records

\* `except BBAPIError:` of the per-meeting fetch: {"meeting": meeting,
\* "status": "unknown"}
AttendanceFallback(records, meeting) ==
    Append(records, [meeting |-> meeting, status |-> "unknown", record |-> None])

\* _get_course_attendance: meetings = self._get_paginated(...)
AttendanceList ==
    /\ Listing("attendance")
    /\ \E r \in ListingResponses(MeetingArrays) :
        agg' = ReturnEmptyAfterPage([agg EXCEPT !.op = "attendance"],
                                    WalkIteration(ListingWalker, r))

\* _get_course_attendance: one iteration of `for meeting in meetings`
AttendanceItem ==
    /\ agg.op = "attendance" /\ agg.pc = "items"
    /\ LET meeting == agg.items[agg.i]
       IN \E r \in DetailResponses(AttendanceBodies(meeting.id)) :
            LET got == Get(r)
            IN agg' = NextItem(
                 [agg EXCEPT !.log = Append(@, r),
                             !.out = IF got.ok
                                     THEN Append(@, ServerAttendance(got.data, meeting))
                                     ELSE AttendanceFallback(@, meeting)])

\* get_course_attendance_percentage: the counts over the records that
\* _get_course_attendance returned
CourseAttendancePercentage ==
    /\ agg.op = "attendance" /\ agg.pc = "done"
    /\ agg' = [agg EXCEPT !.pc = "percentage",
                          !.stats = CourseAttendance("_1_1",
                                      [k \in 1..Len(agg.out) |-> agg.out[k].status])]

\* ---- get_course_assignments, get_course_assignment_stats ----

\* a gradebook column; a key the column lacks is None.  `due` is a date in
\* the past, a date in the future, or absent.
Column(id, type, content, due) ==
    [id |-> id, grading_type |-> type, contentId |-> content, due |-> due]
ColTotal == Column("total", "Calculated", None, None)
ColManual == Column("g1", None, None, "past")
ColContent == Column("c1", "Attempts", "ct1", "past")
ColFuture == Column("f1", "Attempts", "ct2", "future")
ColumnArrays == {<<>>, <<ColTotal>>, <<ColManual>>, <<ColContent>>, <<ColFuture>>}

\* GET .../gradebook/columns/{column_id}/users/{user_id}: the grade record
\* the server holds for the column
Grade(status, has, score) == [status |-> status, hasScore |-> has, score |-> score]
GradeBodies(column_id) ==
    IF column_id = "g1"
    THEN {Grade("Graded", TRUE, 15), Grade("Graded", TRUE, 0),
          Grade("NeedsGrading", FALSE, 0), Grade("InProgress", FALSE, 0),
          Grade(None, TRUE, 15), Grade(None, FALSE, 0)}
    ELSE IF column_id = "c1"
    THEN {Grade("NeedsGrading", FALSE, 0), Grade("", FALSE, 0), Grade(None, FALSE, 0)}
    ELSE {Grade("Graded", TRUE, 15), Grade(None, FALSE, 0)}

\* GET /courses/{course_id}/contents/{content_id}: contentHandler's
\* isLateAttemptCreationDisallowed, "true", "false" or absent
ContentBodies(content_id) ==
    IF content_id = "ct1"
    THEN {[isLateAttemptCreationDisallowed |-> f] : f \in {"true", "false", None}}
    ELSE {[isLateAttemptCreationDisallowed |-> "true"]}

\* grading.get("type", "Manual")
GradingType(column) ==
    IF column.grading_type = None THEN "Manual" ELSE column.grading_type

\* is_past_due: False without a due date, else now > due
IsPastDue(due) == due = "past"

\* a variant in which a score without a status marks the assignment graded
\* but not submitted
GradeOfScoreNotSubmitted(got) ==
    LET none == [status |-> "NotSubmitted", submitted |-> FALSE, graded |-> FALSE,
                 hasScore |-> FALSE, score |-> 0]
    IN IF ~got.ok THEN none
       ELSE LET grade_status == got.data.status
                scored == [none EXCEPT !.hasScore = got.data.hasScore,
                                       !.score = got.data.score]
            IN IF grade_status = "Graded"
               THEN [scored EXCEPT !.status = "Graded", !.graded = TRUE, !.submitted = TRUE]
               ELSE IF grade_status = "NeedsGrading"
               THEN [scored EXCEPT !.status = "Submitted", !.submitted = TRUE]
               ELSE IF Truthy(grade_status)
               THEN [scored EXCEPT !.status = grade_status, !.submitted = TRUE]
               ELSE IF got.data.hasScore
               THEN [scored EXCEPT !.status = "Graded", !.graded = TRUE]
               ELSE scored

\* the grade fetch and the if/elif chain on grade_status and score
GradeOf(got) ==
    LET none == [status |-> "NotSubmitted", submitted |-> FALSE, graded |-> FALSE,
                 hasScore |-> FALSE, score |-> 0]
    IN IF ~got.ok THEN none
       ELSE LET grade_status == got.data.status
                scored == [none EXCEPT !.hasScore = got.data.hasScore,
                                       !.score = got.data.score]
            IN IF grade_status = "Graded"
               THEN [scored EXCEPT !.status = "Graded", !.graded = TRUE, !.submitted = TRUE]
               ELSE IF grade_status = "NeedsGrading"
               THEN [scored EXCEPT !.status = "Submitted", !.submitted = TRUE]
               ELSE IF Truthy(grade_status)
               THEN [scored EXCEPT !.status = grade_status, !.submitted = TRUE]
               ELSE IF got.data.hasScore
               THEN [scored EXCEPT !.status = "Graded", !.graded = TRUE, !.submitted = TRUE]
               ELSE scored

\* a variant that refuses late work when the content is unknown
AcceptsLateDefaultFalse(content_id, got) ==
    IF Truthy(content_id) /\ got.ok
    THEN got.data.isLateAttemptCreationDisallowed # "true"
    ELSE FALSE

\* accepts_late: True unless the content was fetched and disallows late attempts
AcceptsLate(content_id, got) ==
    IF Truthy(content_id) /\ got.ok
    THEN got.data.isLateAttemptCreationDisallowed # "true"
    ELSE TRUE

\* the assignment dict built for a column
AssignmentOf(column, grade, accepts_late) ==
    [id |-> column.id, content_id |-> column.contentId, status |-> grade.status,
     grading_type |-> GradingType(column), submitted |-> grade.submitted,
     graded |-> grade.graded, hasScore |-> grade.hasScore, score |-> grade.score,
     is_past_due |-> IsPastDue(column.due), accepts_late |-> accepts_late]

\* a variant in which the failure of the column listing leaves the method
ColumnsAfterPageRaises(a, w) ==
    IF w.pc = "raised" THEN [a EXCEPT !.w = w, !.listing = "failed", !.pc = "raised", !.err = w.err]
    ELSE IF w.pc = "done" THEN StartItems(a, w)
    ELSE [a EXCEPT !.w = w, !.pc = "list"]

\* get_course_assignments: `except BBAPIError: return []` around the listing
ColumnsAfterPage(a, w) ==
    IF w.pc = "raised"
    THEN [a EXCEPT !.w = w, !.listing = "failed", !.pc = "done", !.out = <<>>]
    ELSE IF w.pc = "done" THEN StartItems(a, w)
    ELSE [a EXCEPT !.w = w, !.pc = "list"]

\* get_course_assignments: columns = self._get_paginated_v2(...)
AssignmentsList ==
    /\ Listing("assignments")
    /\ \E r \in ListingResponses(ColumnArrays) :
        agg' = ColumnsAfterPage([agg EXCEPT !.op = "assignments"],
                                WalkIterationV2(ListingWalker, r))

\* get_course_assignments: one iteration of `for column in columns`
AssignmentsItem ==
    /\ agg.op = "assignments" /\ agg.pc = "items"
    /\ LET column == agg.items[agg.i]
           content_id == column.contentId
       IN IF GradingType(column) = "Calculated"
          THEN agg' = NextItem([agg EXCEPT !.log =
                          Append(@, [grade |-> NoResponse, content |-> NoResponse])])
          ELSE \E rg \in DetailResponses(GradeBodies(column.id)),
                  rc \in IF Truthy(content_id)
                         THEN DetailResponses(ContentBodies(content_id))
                         ELSE {NoResponse} :
                agg' = NextItem(
                    [agg EXCEPT !.log = Append(@, [grade |-> rg, content |-> rc]),
                                !.out = Append(@, AssignmentOf(column, GradeOf(Get(rg)),
                                                     AcceptsLate(content_id, Get(rc))))])

\* get_course_assignment_stats: the counts over the assignments that
\* get_course_assignments returned
CourseStats ==
    /\ agg.op = "assignments" /\ agg.pc = "done"
    /\ agg' = [agg EXCEPT !.pc = "counted",
                          !.stats = CourseAssignmentStats("_1_1", agg.out)]

----------------------------------------------------------------------------
(* The constructor and the refresh, step by step *)

\* where a call that raises leaves the program: a failed constructor yields
\* no client, a failed refresh of a constructed client leaves the client
Fail(op) == IF op = "init" THEN "raised" ELSE "ready"

\* BBClient.__init__ up to the first remote call
Construct ==
    /\ pc = "new"
    /\ \E ip \in {None, CfgPath}, u \in {None, "u1"}, p \in {None, "pw1"}, ar \in BOOLEAN :
        LET a == [id_path |-> ip, username |-> u, password |-> p, auto_refresh |-> ar]
            base == [NewClient EXCEPT !.username = u, !.password = p,
                                      !.id_path = ip, !.auto_refresh = ar]
            hh == [NewHistory EXCEPT !.op = "init", !.args = a, !.fs0 = fs]
        IN IF Truthy(ip) /\ fs[ip].exists
           THEN LET loaded == LoadIdFile(fs[ip], ip)
                    got == RecoverCredentials(loaded.cached_data.credentials, u, p)
                IN IF loaded.ok
                   THEN /\ client' = [base EXCEPT !.session = loaded.session,
                                                  !.cached_data = loaded.cached_data,
                                                  !.username = got.username,
                                                  !.password = got.password]
                        /\ pc' = "validate"
                        /\ error' = "none"
                        /\ h' = [hh EXCEPT !.initBranch = "file",
                                           !.session0 = loaded.session]
                   ELSE /\ client' = base
                        /\ pc' = "raised"
                        /\ error' = "AuthError:load"
                        /\ h' = [hh EXCEPT !.initBranch = "file",
                                           !.loadError = loaded.err]
           ELSE IF Truthy(u) /\ Truthy(p)
           THEN /\ client' = base
                /\ pc' = IF RefreshPrecondition(u, p) THEN "login" ELSE "raised"
                /\ error' = IF RefreshPrecondition(u, p) THEN "none"
                            ELSE "AuthError:cannot_refresh"
                /\ h' = [hh EXCEPT !.initBranch = "creds", !.refreshCalls = 1]
           ELSE /\ client' = base
                /\ pc' = "raised"
                /\ error' = "AuthError:must_provide"
                /\ h' = [hh EXCEPT !.initBranch = "neither"]
    /\ UNCHANGED <<fs, clock>>

\* __init__: self._validate_auth() on the loaded session and its except handler
Validate ==
    /\ pc = "validate"
    /\ \E r \in ProbeResponses :
        LET v == ValidateAuth(client.user_id, r)
            hh == [h EXCEPT !.apiCalls = @ + 1, !.probe = r,
                            !.validation = IF v.ok THEN "ok" ELSE v.err,
                            !.initProbe = IF v.ok THEN "ok" ELSE v.err]
            enter == RefreshPrecondition(client.username, client.password)
            decision == IF v.ok
                        THEN InitOnValidSession(client.auto_refresh,
                                                client.username, client.password)
                        ELSE IF v.err = "APIError" THEN "api_error"
                        ELSE InitOnAuthError(v.err, client.auto_refresh,
                                             client.username, client.password)
        IN /\ client' = [client EXCEPT !.user_id = v.user_id]
           /\ IF decision = "ready"
              THEN pc' = "ready" /\ error' = "none" /\ h' = hh
              ELSE IF decision = "api_error"
              THEN pc' = "raised" /\ error' = "APIError" /\ h' = hh
              ELSE IF decision = "refresh"
              THEN /\ h' = [hh EXCEPT !.refreshCalls = @ + 1]
                   /\ pc' = IF enter THEN "login" ELSE "raised"
                   /\ error' = IF enter THEN "none" ELSE "AuthError:cannot_refresh"
              ELSE pc' = "raised" /\ error' = "AuthError:init" /\ h' = hh
    /\ UNCHANGED <<fs, clock>>

\* a call of _refresh_authentication on a constructed client
CallRefresh ==
    /\ pc = "ready"
    /\ h.refreshes < MaxRefreshes
    /\ LET enter == RefreshPrecondition(client.username, client.password)
       IN /\ h' = [NewHistory EXCEPT !.op = "refresh", !.args = h.args, !.fs0 = fs,
                                     !.session0 = client.session, !.refreshCalls = 1,
                                     !.refreshes = h.refreshes + 1]
          /\ pc' = IF enter THEN "login" ELSE "ready"
          /\ error' = IF enter THEN "none" ELSE "AuthError:cannot_refresh"
    /\ UNCHANGED <<fs, clock, client>>

\* _refresh_authentication: self.session = login_with_selenium(...)
Login ==
    /\ pc = "login"
    /\ \E ok \in BOOLEAN :
        /\ h' = [h EXCEPT !.loginCalls = @ + 1,
                          !.loginResult = IF ok THEN "ok" ELSE "fail"]
        /\ IF ok
           THEN /\ client' = [client EXCEPT !.session =
                                [has |-> TRUE, cookies |-> JarOf(<<>>, <<Cookie(clock)>>)]]
                /\ clock' = clock + 1
                /\ pc' = "revalidate"
                /\ error' = "none"
           ELSE /\ pc' = Fail(h.op)
                /\ error' = "AuthError:login"
                /\ UNCHANGED <<client, clock>>
    /\ UNCHANGED fs

\* _refresh_authentication: self._validate_auth() on the new session
Revalidate ==
    /\ pc = "revalidate"
    /\ \E r \in ProbeResponses :
        LET v == ValidateAuth(client.user_id, r)
            to == AfterRevalidation(v.ok)
        IN /\ client' = [client EXCEPT !.user_id = v.user_id]
           /\ h' = [h EXCEPT !.apiCalls = @ + 1, !.probe = r,
                             !.validation = IF v.ok THEN "ok" ELSE v.err,
                             !.revalidation = IF v.ok THEN "ok" ELSE v.err]
           /\ pc' = IF to = "fail" THEN Fail(h.op) ELSE to
           /\ error' = IF to = "fail" THEN v.err ELSE "none"
    /\ UNCHANGED <<fs, clock>>

\* _refresh_authentication, has_existing_id: update_id_file_cookies, then
\* load_id_file to repopulate self._cached_data
UpdateCookies ==
    /\ pc = "write"
    /\ Truthy(client.id_path) /\ fs[client.id_path].exists
    /\ LET path == client.id_path
           file == UpdateIdFileCookies(fs[path], client.session, clock)
       IN /\ fs' = [fs EXCEPT ![path] = file]
          /\ client' = [client EXCEPT !.cached_data = LoadCachedData(file)]
    /\ clock' = clock + 1
    /\ pc' = "nerd"
    /\ h' = [h EXCEPT !.wrote = "cookies"]
    /\ UNCHANGED error

\* a variant that always writes the file of the login name
GenerateTargetDefaultOnly(id_path, username) == DefaultIdFile(username)

\* _refresh_authentication: `if self._id_path: ... elif self._username:`, the
\* path handed to generate_id_file
GenerateTarget(id_path, username) ==
    IF Truthy(id_path) THEN id_path ELSE DefaultIdFile(username)

\* a variant that saves what it has when the instructors cannot be fetched
GenerateWritesPartial(outcome) == outcome \in {"ok", "instructors_fail"}

\* generate_id_file: save_id_file is called after get_current_user,
\* get_enrolled_courses and get_course_instructors have all returned
GenerateWrites(outcome) == outcome = "ok"

\* _refresh_authentication, no existing file: generate_id_file at id_path, or
\* at f"{username}.id", which then becomes self._id_path
GenerateIdFile ==
    /\ pc = "write"
    /\ ~(Truthy(client.id_path) /\ fs[client.id_path].exists)
    /\ LET target == GenerateTarget(client.id_path, client.username)
       IN \E outcome \in {"user_fails", "courses_fail", "instructors_fail", "ok"},
             ud \in UserDatas, cs \in ApiCourseLists, ins \in InstructorLists :
            IF outcome = "ok"
            THEN /\ fs' = [fs EXCEPT ![target] =
                             SaveIdFile(client.session, ud, cs, ins,
                                        client.username, client.password, clock)]
                 /\ clock' = clock + 1
                 /\ client' = [client EXCEPT
                                 !.cached_data = GeneratedCachedData(
                                     ud, cs, client.username, client.password),
                                 !.id_path = target]
                 /\ pc' = "nerd"
                 /\ error' = "none"
                 /\ h' = [h EXCEPT !.apiCalls = @ + 3, !.wrote = "generated",
                                   !.parsed = [k \in 1..Len(cs) |->
                                       [course_name |-> cs[k].name,
                                        course_id |-> cs[k].courseId,
                                        info |-> ParseCourseInfo(cs[k].name, cs[k].courseId)]]]
            ELSE /\ pc' = Fail(h.op)
                 /\ error' = "APIError"
                 /\ h' = [h EXCEPT !.apiCalls = @ +
                            (IF outcome = "user_fails" THEN 1
                             ELSE IF outcome = "courses_fail" THEN 2 ELSE 3)]
                 /\ fs' = IF GenerateWrites(outcome)
                          THEN [fs EXCEPT ![target] =
                                  SaveIdFile(client.session, ud, cs, <<>>,
                                             client.username, client.password, clock)]
                          ELSE fs
                 /\ UNCHANGED <<clock, client>>

\* a variant in which an exception of the stats update leaves the refresh
StatsFailureRaises(op) == [pc |-> Fail(op), error |-> "Error"]

\* _refresh_authentication: `except Exception:` around is_nerd / is_attending
\* prints a warning and the refresh returns normally
StatsFailure(op) == [pc |-> "ready", error |-> "none"]

\* the metric the same server answers give over the courses recorded in a file
NerdOfFile(file, assignmentsOf) ==
    LET rate == AssignmentStats(LoadCachedData(file), assignmentsOf).on_time_rate
    IN Metric(IsNerd(rate), rate)

AttendingOfFile(file, statusesOf) ==
    LET pct == AttendancePercentage(LoadCachedData(file), statusesOf).percentage
    IN Metric(IsAttending(pct), pct)

\* _refresh_authentication: self.is_nerd() inside `try: ... except Exception`
StatsNerd ==
    /\ pc = "nerd"
    /\ \E crash \in BOOLEAN, assignmentsOf \in [CourseIds -> AssignmentLists] :
        IF crash
        THEN /\ pc' = StatsFailure(h.op).pc
             /\ error' = StatsFailure(h.op).error
             /\ h' = [h EXCEPT !.stats = "nerd_failed"]
             /\ UNCHANGED fs
        ELSE LET rate == AssignmentStats(client.cached_data, assignmentsOf).on_time_rate
                 path == client.id_path
             IN /\ fs' = IF Truthy(path) /\ fs[path].exists
                         THEN [fs EXCEPT ![path] = WithNerd(@, IsNerd(rate), rate)]
                         ELSE fs
                /\ pc' = "attending"
                /\ h' = [h EXCEPT !.stats = "nerd_done",
                                  !.nerdOfFile = NerdOfFile(fs[path], assignmentsOf)]
                /\ UNCHANGED error
    /\ UNCHANGED <<clock, client>>

\* _refresh_authentication: self.is_attending() inside the same try
StatsAttending ==
    /\ pc = "attending"
    /\ \E crash \in BOOLEAN, statusesOf \in [CourseIds -> StatusLists] :
        IF crash
        THEN /\ pc' = StatsFailure(h.op).pc
             /\ error' = StatsFailure(h.op).error
             /\ h' = [h EXCEPT !.stats = "attending_failed"]
             /\ UNCHANGED fs
        ELSE LET pct == AttendancePercentage(client.cached_data, statusesOf).percentage
                 path == client.id_path
             IN /\ fs' = IF Truthy(path) /\ fs[path].exists
                         THEN [fs EXCEPT ![path] = WithAttending(@, IsAttending(pct), pct)]
                         ELSE fs
                /\ pc' = "ready"
                /\ h' = [h EXCEPT !.stats = "done",
                                  !.attendingOfFile = AttendingOfFile(fs[path], statusesOf)]
                /\ UNCHANGED error
    /\ UNCHANGED <<clock, client>>

----------------------------------------------------------------------------
(* The calls of a constructed client over its cached courses:
   get_assignments, is_nerd (get_assignment_stats), is_attending
   (get_attendance_percentage) *)

CourseB == FileCourse(<<"Algo">>, <<"ESE.AL-03">>, "_2_1", "http://x/_2_1", <<>>)

\* the courses of the cached profile of a constructed client
CachedCourseLists ==
    {<<>>, <<CourseA>>, <<CourseOld>>, <<CourseOld, CourseA>>, <<CourseA, CourseB>>,
     <<CourseA, CourseOld, CourseB>>}

\* the cache file of the client: as save_id_file left it, or with the metrics
\* of an earlier is_nerd / is_attending
MetricFile(cs, m) ==
    [exists |-> TRUE, valid_json |-> TRUE, generated_at |-> 1, updated_at |-> 0,
     cookies |-> <<Cookie(0)>>, credentials |-> Creds("U1", "pw"), user |-> OldUser,
     courses |-> cs, nerd |-> m[1], attending |-> m[2]]

\* n assignments submitted before they were due, n submitted after
OnTime(n) == [k \in 1..n |-> Assignment(TRUE, FALSE, TRUE, FALSE, FALSE, 0)]
Late(n) == [k \in 1..n |-> Assignment(TRUE, TRUE, TRUE, FALSE, FALSE, 0)]

Load(a, b) == [c \in CourseIds |-> IF c = "_1_1" THEN a ELSE b]

\* what get_course_assignments returns for the two courses of the server
AssignmentLoads ==
    {Load(<<>>, <<>>),
     Load(OnTime(1), <<>>),
     Load(<<>>, Late(6)),
     Load(OnTime(5), Late(6)),
     Load(OnTime(9), Late(11)),
     Load(OnTime(1), OnTime(5)),
     Load(Late(6), OnTime(5))}

\* what the read and the write of the cache file can do
IOOutcomes == {"ok", "read_fails", "write_fails", "write_truncates"}

\* a variant without the try / except around the file update
UpdateMetricUnguarded(file, io, new) ==
    IF ~file.exists \/ ~file.valid_json \/ io \in {"read_fails", "write_fails"}
    THEN [file |-> file, raised |-> TRUE]
    ELSE IF io = "write_truncates" THEN [file |-> MalformedFile, raised |-> TRUE]
    ELSE [file |-> new, raised |-> FALSE]

\* is_nerd / is_attending: `try: read, set the two keys, write; except
\* Exception: pass`.  A write that fails leaves the file as it was, or
\* truncated when open(path, 'w') had succeeded.
UpdateMetric(file, io, new) ==
    IF ~file.exists \/ ~file.valid_json \/ io \in {"read_fails", "write_fails"}
    THEN [file |-> file, raised |-> FALSE]
    ELSE IF io = "write_truncates" THEN [file |-> MalformedFile, raised |-> FALSE]
    ELSE [file |-> new, raised |-> FALSE]

\* the internal ids handed to get_course_assignments /
\* get_course_attendance_percentage by the iteration over the cached courses
RemoteCalls(cached_data) ==
    IF ~cached_data.has THEN <<>>
    ELSE LET visited == WithInternalId(cached_data.courses)
         IN [k \in 1..Len(visited) |-> visited[k].internal_id]

RECURSIVE ExtendAll(_)
ExtendAll(lists) ==
    IF lists = <<>> THEN <<>> ELSE Head(lists) \o ExtendAll(Tail(lists))

\* get_assignments: the assignments of every cached course with an
\* internal_id, each carrying the course_id it was fetched for
Assignments(cached_data, assignmentsOf) ==
    IF ~cached_data.has THEN <<>>
    ELSE LET visited == WithInternalId(cached_data.courses)
         IN ExtendAll([k \in 1..Len(visited) |->
                [j \in 1..Len(assignmentsOf[visited[k].internal_id]) |->
                    [course_id |-> visited[k].internal_id,
                     assignment |-> assignmentsOf[visited[k].internal_id][j]]]])

NewCall ==
    [op |-> "none", flag |-> FALSE, value |-> 0, courses |-> <<>>, overall |-> NoOverall,
     out |-> <<>>,
     calls |-> <<>>, input |-> Load(<<>>, <<>>), io |-> "ok"]

\* get_assignments()
GetAssignments ==
    /\ pc = "ready"
    /\ \E assignmentsOf \in AssignmentLoads :
        agg' = [NewCall EXCEPT !.op = "get_assignments",
                               !.out = Assignments(client.cached_data, assignmentsOf),
                               !.calls = RemoteCalls(client.cached_data),
                               !.input = assignmentsOf]
    /\ UNCHANGED <<fs, clock, pc, client, error, h>>

\* is_nerd(): get_assignment_stats, the flag, the update of the cache file
CallIsNerd ==
    /\ pc = "ready"
    /\ \E assignmentsOf \in AssignmentLoads, io \in IOOutcomes :
        LET stats == AssignmentStats(client.cached_data, assignmentsOf)
            rate == stats.on_time_rate
            path == client.id_path
            upd == UpdateMetric(fs[path], io, WithNerd(fs[path], IsNerd(rate), rate))
        IN /\ fs' = IF Truthy(path) THEN [fs EXCEPT ![path] = upd.file] ELSE fs
           /\ error' = IF Truthy(path) /\ upd.raised THEN "Error" ELSE error
           /\ agg' = [NewCall EXCEPT !.op = "is_nerd", !.flag = IsNerd(rate),
                                     !.value = rate, !.courses = stats.courses,
                                     !.overall = stats.overall,
                                     !.calls = RemoteCalls(client.cached_data),
                                     !.input = assignmentsOf, !.io = io]
    /\ UNCHANGED <<clock, pc, client, h>>

\* is_attending(): get_attendance_percentage, the flag, the update of the file
CallIsAttending ==
    /\ pc = "ready"
    /\ \E statusesOf \in [CourseIds -> StatusLists], io \in IOOutcomes :
        LET stats == AttendancePercentage(client.cached_data, statusesOf)
            pct == stats.percentage
            path == client.id_path
            upd == UpdateMetric(fs[path], io, WithAttending(fs[path], IsAttending(pct), pct))
        IN /\ fs' = IF Truthy(path) THEN [fs EXCEPT ![path] = upd.file] ELSE fs
           /\ error' = IF Truthy(path) /\ upd.raised THEN "Error" ELSE error
           /\ agg' = [NewCall EXCEPT !.op = "is_attending", !.flag = IsAttending(pct),
                                     !.value = pct, !.courses = stats.courses,
                                     !.overall = stats.overall,
                                     !.calls = RemoteCalls(client.cached_data),
                                     !.input = statusesOf, !.io = io]
    /\ UNCHANGED <<clock, pc, client, h>>

----------------------------------------------------------------------------
(* Specifications *)

AggIdle == agg = NewAggregation

ClientIdle ==
    /\ fs = [p \in Paths |-> NoFile]
    /\ clock = 0
    /\ pc = "none"
    /\ client = NewClient
    /\ error = "none"
    /\ h = NewHistory

WalkIdle ==
    /\ resp = [kind |-> "neterr", status |-> 0, data |-> NoData]
    /\ served = 0
    /\ servedResults = <<>>
    /\ w1 = WalkerInit
    /\ w2 = WalkerInit

InitWalk == WalkIdle /\ ClientIdle /\ AggIdle

NextWalk ==
    \/ WalkV1 /\ UNCHANGED clientVars /\ UNCHANGED agg
    \/ WalkV2 /\ UNCHANGED clientVars /\ UNCHANGED agg

SpecWalk == InitWalk /\ [][NextWalk]_vars

\* the disk before the program starts: no file, or a file an earlier run left,
\* at the configured path and at the default path of the login name
Init ==
    /\ WalkIdle
    /\ AggIdle
    /\ fs \in {[p \in Paths |->
                  IF p = CfgPath THEN f ELSE IF p = "u1.id" THEN g ELSE NoFile] :
               f \in StoredFiles \cup {NoFile, MalformedFile, LegacyFile},
               g \in {NoFile,
                      CHOOSE x \in StoredFiles :
                          x.credentials.has /\ x.nerd.has /\ Len(x.courses) = 1}}
    /\ clock = 2
    /\ pc = "new"
    /\ client = NewClient
    /\ error = "none"
    /\ h = NewHistory

Next ==
    \/ Construct /\ UNCHANGED walkVars /\ UNCHANGED agg
    \/ Validate /\ UNCHANGED walkVars /\ UNCHANGED agg
    \/ CallRefresh /\ UNCHANGED walkVars /\ UNCHANGED agg
    \/ Login /\ UNCHANGED walkVars /\ UNCHANGED agg
    \/ Revalidate /\ UNCHANGED walkVars /\ UNCHANGED agg
    \/ UpdateCookies /\ UNCHANGED walkVars /\ UNCHANGED agg
    \/ GenerateIdFile /\ UNCHANGED walkVars /\ UNCHANGED agg
    \/ StatsNerd /\ UNCHANGED walkVars /\ UNCHANGED agg
    \/ StatsAttending /\ UNCHANGED walkVars /\ UNCHANGED agg

Spec == Init /\ [][Next]_vars

InitAgg == WalkIdle /\ ClientIdle /\ AggIdle

\* a constructed client: its cached profile was loaded from the file at
\* id_path, which since then may have been removed or damaged
InitMetrics ==
    /\ WalkIdle
    /\ \E cs \in CachedCourseLists :
        /\ client = [NewClient EXCEPT !.session = LoadSession(MetricFile(cs, <<NoMetric, NoMetric>>)),
                                      !.user_id = "_u1", !.username = "U1", !.password = "pw",
                                      !.id_path = CfgPath,
                                      !.cached_data = LoadCachedData(MetricFile(cs, <<NoMetric, NoMetric>>))]
        /\ fs \in {[p \in Paths |-> IF p = CfgPath THEN f ELSE NoFile] :
                      f \in {MetricFile(cs, <<NoMetric, NoMetric>>),
                             MetricFile(cs, <<Metric(TRUE, 50), Metric(FALSE, 5000)>>),
                             NoFile, MalformedFile}}
    /\ clock = 2
    /\ pc = "ready"
    /\ error = "none"
    /\ h = NewHistory
    /\ agg = NewCall

NextMetrics ==
    \/ GetAssignments /\ UNCHANGED walkVars
    \/ CallIsNerd /\ UNCHANGED walkVars
    \/ CallIsAttending /\ UNCHANGED walkVars

SpecMetrics == InitMetrics /\ [][NextMetrics]_vars

NextAgg ==
    \/ EnrolledList /\ UNCHANGED walkVars /\ UNCHANGED clientVars
    \/ EnrolledItem /\ UNCHANGED walkVars /\ UNCHANGED clientVars
    \/ InstructorsList /\ UNCHANGED walkVars /\ UNCHANGED clientVars
    \/ InstructorsItem /\ UNCHANGED walkVars /\ UNCHANGED clientVars
    \/ AttendanceList /\ UNCHANGED walkVars /\ UNCHANGED clientVars
    \/ AttendanceItem /\ UNCHANGED walkVars /\ UNCHANGED clientVars
    \/ CourseAttendancePercentage /\ UNCHANGED walkVars /\ UNCHANGED clientVars
    \/ AssignmentsList /\ UNCHANGED walkVars /\ UNCHANGED clientVars
    \/ AssignmentsItem /\ UNCHANGED walkVars /\ UNCHANGED clientVars
    \/ CourseStats /\ UNCHANGED walkVars /\ UNCHANGED clientVars

SpecAgg == InitAgg /\ [][NextAgg]_vars

----------------------------------------------------------------------------
(* Properties of the pagination walkers *)

RECURSIVE Flatten(_)
Flatten(ss) == IF ss = <<>> THEN <<>> ELSE Head(ss) \o Flatten(Tail(ss))

RECURSIVE SumLen(_)
SumLen(ss) == IF ss = <<>> THEN 0 ELSE Len(Head(ss)) + SumLen(Tail(ss))

\* C1: what _get_paginated has accumulated, and returns when it stops, is the
\* concatenation of the `results` arrays of the pages it received, page by
\* page and record by record (a page without `results` adds nothing), so its
\* length is the sum of the per-page counts.
C1_ResultsAreConcatenation ==
    w1.pc \in {"run", "done"} =>
        LET pages == SubSeq(servedResults, 1, w1.n)
        IN /\ w1.all_results = Flatten(pages)
           /\ Len(w1.all_results) = SumLen(pages)

C1_Witness ==
    /\ w1.pc = "done"
    /\ w1.n = 2
    /\ servedResults = <<<<"r2", "r1">>, <<"r1">>>>
    /\ w1.all_results = <<"r2", "r1", "r1">>

\* the page is one after which the walk ends: nextPage absent or empty, or
\* present without an "offset=" token
StopPage(d) ==
    \/ d.paging # "next"
    \/ d.nextPage = <<>>
    \/ \A i \in 1..Len(d.nextPage) : d.nextPage[i] # OFFSET

\* the text that follows the last "offset=" of s, up to the next "&" or the end
OffsetText(s) ==
    LET i == CHOOSE k \in 1..Len(s) :
                 s[k] = OFFSET /\ \A j \in (k + 1)..Len(s) : s[j] # OFFSET
        stops == {j \in (i + 1)..Len(s) : s[j] = AMP}
        j == IF stops = {} THEN Len(s) + 1
             ELSE CHOOSE m \in stops : \A o \in stops : m <= o
    IN SubSeq(s, i + 1, j - 1)

\* C2: a walker that has stopped issues no further GET; every iteration issues
\* exactly one GET; the first carries no offset and each later one carries the
\* offset text of the previous page's nextPage; and the walker stops exactly
\* on the first page whose nextPage is absent, empty or without "offset=".
C2_StopsAtFirstTerminalPage ==
    [][ /\ (w1.pc # "run" => w1' = w1)
        /\ (w1' # w1 =>
              LET page == IF w1.n < served THEN resp ELSE resp'
              IN /\ w1'.n = w1.n + 1
                 /\ Len(w1'.sent) = w1'.n
                 /\ SubSeq(w1'.sent, 1, w1.n) = w1.sent
                 /\ w1'.sent[w1'.n] =
                        (IF w1.n = 0 THEN NoOffset
                         ELSE [has |-> TRUE, offset |-> OffsetText(w1.data.nextPage)])
                 /\ (page.kind = "http" /\ page.status = HTTP_OK) =>
                        /\ w1'.pc \in {"run", "done"}
                        /\ w1'.pc = "done" <=> StopPage(page.data))
      ]_vars

C2_Witness ==
    /\ w1.pc = "done"
    /\ w1.n = 2
    /\ w1.sent = <<NoOffset, [has |-> TRUE, offset |-> <<"7">>]>>
    /\ w1.data.paging = "next"
    /\ w1.data.nextPage = <<"7", AMP>>

\* C3: after the same number of pages of the same response sequence the two
\* walkers are in the same position with the same accumulated results, the
\* same offsets sent and the same error, and neither goes on after the page
\* the other stopped or raised at.
C3_WalkersAgree ==
    /\ w1.n = w2.n => w1 = w2
    /\ w1.pc # "run" => w2.n <= w1.n
    /\ w2.pc # "run" => w1.n <= w2.n

C3_Witness ==
    /\ w1.n = 2 /\ w2.n = 2
    /\ w2.pc = "done"
    /\ w2.sent[2] = [has |-> TRUE, offset |-> <<"7">>]
    /\ Len(w2.all_results) = 3

----------------------------------------------------------------------------
(* Properties of the constructor and the refresh *)

\* the constructor took the cache-file branch and its validation probe failed
InitProbeFailed ==
    /\ h.op = "init"
    /\ h.initBranch = "file"
    /\ h.initProbe \in {"AuthError:expired", "AuthError:validation_failed"}

\* C4: when a construction from an existing cache file sees its validation
\* probe fail (401 or any other failure), _refresh_authentication is entered
\* iff auto_refresh is on and the client holds both a username and a password
\* (supplied or recovered); otherwise the construction fails with the
\* AuthError of __init__ and the interactive login is never invoked.
C4_RefreshIffAutoAndCredentials ==
    InitProbeFailed =>
        LET should == /\ client.auto_refresh
                      /\ client.username \notin {None, ""}
                      /\ client.password \notin {None, ""}
        IN /\ h.refreshCalls = 1 <=> should
           /\ should => (h.loginCalls >= 1 \/ pc = "login")
           /\ ~should => /\ pc = "raised"
                         /\ error = "AuthError:init"
                         /\ h.loginCalls = 0

C4_Witness ==
    /\ InitProbeFailed
    /\ h.initProbe = "AuthError:validation_failed"
    /\ h.loginCalls = 1
    /\ client.username = "U1"

OtherClass(e) ==
    IF e = "AuthError:expired" THEN "AuthError:validation_failed" ELSE "AuthError:expired"

C6_ValidationOutcome ==
    [][ h'.apiCalls = h.apiCalls + 1 /\ pc \in {"validate", "revalidate"} =>
          LET r == h'.probe
          IN /\ h'.validation # "APIError" /\ error' # "APIError"
             /\ (r.kind = "http" /\ r.status = HTTP_OK) =>
                   h'.validation = "ok" /\ client'.user_id = r.data.id
             /\ (r.kind = "http" /\ r.status = HTTP_UNAUTHORIZED) =>
                   h'.validation = "AuthError:expired" /\ client'.user_id = client.user_id
             /\ (r.kind = "neterr" \/ r.status \notin {HTTP_OK, HTTP_UNAUTHORIZED}) =>
                   /\ h'.validation = "AuthError:validation_failed"
                   /\ client'.user_id = client.user_id
             /\ (pc = "revalidate" /\ h'.validation # "ok") => error' = h'.validation
      ]_vars

C6_Witness ==
    /\ h.op = "refresh"
    /\ h.validation = "AuthError:validation_failed"
    /\ error = "AuthError:validation_failed"
    /\ client.user_id = "_u2"
    /\ pc = "ready"

\* C7: a refresh requested while the client does not hold both a username and
\* a password ends at once in the "cannot refresh" AuthError: no login, the
\* session and the files as they were.  A construction given neither an
\* existing cache file nor both credentials ends in the "must provide"
\* AuthError without a remote call or a login, the files as they were.
C7_NoCredentialsNoSideEffect ==
    /\ (h.op = "refresh" /\ ~(Truthy(client.username) /\ Truthy(client.password))) =>
          /\ pc = "ready"
          /\ error = "AuthError:cannot_refresh"
          /\ h.loginCalls = 0 /\ h.apiCalls = 0
          /\ client.session = h.session0
          /\ fs = h.fs0
    /\ (/\ h.op = "init"
        /\ ~(Truthy(h.args.id_path) /\ h.fs0[h.args.id_path].exists)
        /\ ~(Truthy(h.args.username) /\ Truthy(h.args.password))) =>
          /\ pc = "raised"
          /\ error = "AuthError:must_provide"
          /\ h.loginCalls = 0 /\ h.apiCalls = 0
          /\ fs = h.fs0

C7_Witness ==
    /\ h.op = "refresh"
    /\ error = "AuthError:cannot_refresh"
    /\ client.username = "u1"
    /\ client.password = None
    /\ fs[CfgPath].exists

\* C8 as stated: after the cache file is loaded, the client holds a username
\* and a password whenever each of them is present in at least one source
\* (the caller's arguments, the file's stored credentials).
C8_CredentialsFromEitherSource ==
    (h.op = "init" /\ h.initBranch = "file") =>
        LET stored == h.fs0[h.args.id_path].credentials
        IN ((Truthy(h.args.username) \/ (stored.has /\ Truthy(stored.username)))
            /\ (Truthy(h.args.password) \/ (stored.has /\ Truthy(stored.password))))
           => (Truthy(client.username) /\ Truthy(client.password))

\* C9: one construction or refresh invokes the interactive login at most once;
\* a failed login ends the call in its AuthError, and a login whose session
\* then fails validation ends the call in the validation's AuthError without
\* a second login; in both cases every cache file is as it was.
C9_LoginAtMostOnce ==
    /\ h.loginCalls <= 1
    /\ h.loginResult = "fail" =>
          /\ error = "AuthError:login"
          /\ pc = Fail(h.op)
          /\ fs = h.fs0
    /\ h.revalidation \in {"AuthError:expired", "AuthError:validation_failed"} =>
          /\ error = h.revalidation
          /\ h.loginResult = "ok"
          /\ pc = Fail(h.op)
          /\ h.loginCalls = 1
          /\ fs = h.fs0

C9_Witness ==
    /\ h.op = "init"
    /\ h.initBranch = "file"
    /\ h.loginResult = "ok"
    /\ h.revalidation = "AuthError:expired"
    /\ pc = "raised"

\* C10: the cookie-only update of an existing cache file replaces `cookies`
\* by the new session's cookies and sets `updated_at`, every other field
\* staying as it was; and when a refresh that found the file completes, the
\* file's `user` and `courses` are what they were before the refresh.
C10_CookieOnlyUpdate ==
    [][ /\ (pc = "write" /\ Truthy(client.id_path) /\ fs[client.id_path].exists) =>
              LET old == fs[client.id_path]
                  new == fs'[client.id_path]
              IN /\ new.cookies = client.session.cookies
                 /\ new.updated_at = clock
                 /\ [new EXCEPT !.cookies = old.cookies, !.updated_at = old.updated_at] = old
                 /\ \A p \in Paths \ {client.id_path} : fs'[p] = fs[p]
        /\ (pc' = "ready" /\ error' = "none" /\ h'.wrote = "cookies") =>
              /\ fs'[client'.id_path].user = h'.fs0[client'.id_path].user
              /\ fs'[client'.id_path].courses = h'.fs0[client'.id_path].courses
      ]_vars

C10_Witness ==
    /\ pc = "ready" /\ error = "none"
    /\ h.op = "init" /\ h.wrote = "cookies"
    /\ h.fs0[CfgPath].exists
    /\ fs[CfgPath].updated_at > 0
    /\ fs[CfgPath].cookies # h.fs0[CfgPath].cookies
    /\ fs[CfgPath].nerd # h.fs0[CfgPath].nerd
    /\ fs[CfgPath].courses = <<CourseOld, CourseA>>

----------------------------------------------------------------------------
(* Properties of the refresh: what it writes *)

\* C11 as stated: a refresh that writes a cache file at a path where a file
\* already existed (the configured path, or the default <username>.id) leaves
\* that file's `user` and `courses` as they were before the refresh.
C11_RefreshKeepsUserAndCourses ==
    (h.wrote # "none" /\ h.fs0[client.id_path].exists) =>
        /\ fs[client.id_path].user = h.fs0[client.id_path].user
        /\ fs[client.id_path].courses = h.fs0[client.id_path].courses

\* C12: a refresh that finds no file at the configured path (or has no
\* configured path) makes the three fetches (user, courses, instructors) and
\* writes a new record at the configured path, else at <username>.id: the
\* record has generated_at, the session's cookies, the fetched user and one
\* course per fetched course, and the four metric fields null; afterwards the
\* client's path is the written path, and no other file is touched.
C12_FullRegeneration ==
    [][(/\ pc = "write"
        /\ pc' = "nerd"
        /\ ~(Truthy(client.id_path) /\ fs[client.id_path].exists))
       => LET target == IF Truthy(client.id_path) THEN client.id_path
                        ELSE DefaultIdFile(client.username)
              new == fs'[target]
          IN /\ h'.apiCalls = h.apiCalls + 3
             /\ new.exists
             /\ new.generated_at = clock
             /\ new.updated_at = 0
             /\ new.cookies = client.session.cookies
             /\ new.nerd = NoMetric
             /\ new.attending = NoMetric
             /\ \E ud \in UserDatas, cs \in ApiCourseLists :
                    /\ new.user.username = ud.userName
                    /\ new.user.email = ud.email
                    /\ new.user.name = <<ud.given, ud.family>>
                    /\ Len(new.courses) = Len(cs)
                    /\ \A k \in 1..Len(cs) :
                          /\ new.courses[k].internal_id = cs[k].id
                          /\ new.courses[k].url = cs[k].externalAccessUrl
             /\ client'.id_path = target
             /\ \A p \in Paths \ {target} : fs'[p] = fs[p]]_vars

C12_Witness ==
    /\ h.op = "init"
    /\ h.wrote = "generated"
    /\ h.args.id_path = CfgPath
    /\ ~h.fs0[CfgPath].exists
    /\ client.id_path = CfgPath
    /\ fs[CfgPath].exists
    /\ fs[CfgPath].generated_at > 0
    /\ Len(fs[CfgPath].courses) = 2
    /\ fs[CfgPath].nerd = NoMetric
    /\ pc = "nerd"

\* C13 as stated: after a refresh by either path whose recomputation of the
\* flags did not fail, the file's four metric fields are the ones computed
\* from the server's assignments and meetings over every course recorded in
\* the file that has an internal id.
C13_MetricsOverFileCourses ==
    (h.stats = "done" /\ h.wrote # "none") =>
        /\ fs[client.id_path].nerd = h.nerdOfFile
        /\ fs[client.id_path].attending = h.attendingOfFile

\* C14: an exception out of is_nerd or is_attending at the end of a refresh
\* ends the refresh (and the construction) normally: no error, the validated
\* new session in place, the file written by the refresh left as written;
\* after a failure of is_nerd, is_attending has not run.
C14_StatsFailureNonFatal ==
    [][(pc \in {"nerd", "attending"} /\ h'.stats \in {"nerd_failed", "attending_failed"})
       => LET p == client.id_path
          IN /\ pc' = "ready"
             /\ error' = "none"
             /\ client' = client
             /\ fs' = fs
             /\ h.loginResult = "ok"
             /\ h.revalidation = "ok"
             /\ h.wrote \in {"cookies", "generated"}
             /\ fs[p].exists
             /\ fs[p].cookies = client.session.cookies
             /\ (h'.stats = "nerd_failed") =>
                    /\ pc = "nerd"
                    /\ fs'[p].attending = IF h.wrote = "cookies"
                                          THEN h.fs0[p].attending ELSE NoMetric]_vars

C14_Witness ==
    /\ h.op = "init"
    /\ h.stats = "nerd_failed"
    /\ h.wrote = "generated"
    /\ pc = "ready"
    /\ error = "none"
    /\ client.session.has
    /\ fs[client.id_path].exists
    /\ fs[client.id_path].attending = NoMetric

----------------------------------------------------------------------------
(* Properties of the per-course aggregations *)

\* the j-th smallest element of a set of indices
Nth(S, j) == CHOOSE k \in S : Cardinality({x \in S : x < k}) = j - 1

\* the request the k-th iteration made was answered with status 200
Answered(k) == agg.log[k].kind = "http" /\ agg.log[k].status = HTTP_OK

\* C15 as stated: a failure of the membership listing of get_enrolled_courses
\* or of the column listing of get_course_assignments, on any page, leaves the
\* operation as an APIError.
C15_ListingFailurePropagates ==
    (agg.op \in {"enrolled", "assignments"} /\ agg.listing = "failed") =>
        (agg.pc = "raised" /\ agg.err.raised)

\* C15, amended: a failure of the membership listing of get_enrolled_courses,
\* on any page, leaves the operation as the APIError of the failed request,
\* with no result; a failure of the column listing of get_course_assignments,
\* on any page, is caught: the operation returns an empty list (nothing of the
\* pages already fetched) and raises nothing.
C15_ListingFailureByOperation ==
    /\ (agg.op = "enrolled" /\ agg.listing = "failed") =>
          /\ agg.pc = "raised"
          /\ agg.err.raised
          /\ agg.err = agg.w.err
          /\ agg.out = <<>>
          /\ agg.log = <<>>
    /\ (agg.op = "assignments" /\ agg.listing = "failed") =>
          /\ agg.pc \in {"done", "counted"}
          /\ agg.err = NoErr
          /\ agg.w.err.raised
          /\ agg.out = <<>>
          /\ agg.log = <<>>
    /\ (agg.op \in {"enrolled", "assignments"} /\ agg.listing = "failed") <=>
          (agg.op \in {"enrolled", "assignments"} /\ agg.w.pc = "raised")

C15_Witness ==
    /\ agg.op = "assignments"
    /\ agg.listing = "failed"
    /\ agg.w.n = 2
    /\ agg.w.all_results # <<>>
    /\ agg.pc = "done"
    /\ agg.out = <<>>

\* C16: once the membership listing has succeeded, get_enrolled_courses never
\* raises, and its result is, in membership order, one course per membership
\* handled so far that has a courseId, whose detail fetch was answered and
\* whose detail has a non-empty externalAccessUrl; every membership is handled.
C16_EnrolledCourses ==
    (agg.op = "enrolled" /\ agg.listing = "ok") =>
        LET kept == {k \in 1..Len(agg.log) :
                        /\ agg.items[k].courseId \notin {None, ""}
                        /\ Answered(k)
                        /\ agg.log[k].data.externalAccessUrl \notin {None, ""}}
        IN /\ agg.pc \in {"items", "done"}
           /\ agg.err = NoErr
           /\ agg.items = agg.w.all_results
           /\ Len(agg.log) = IF agg.pc = "done" THEN Len(agg.items) ELSE agg.i - 1
           /\ Len(agg.out) = Cardinality(kept)
           /\ \A j \in 1..Len(agg.out) :
                 /\ agg.out[j].membership = agg.items[Nth(kept, j)]
                 /\ agg.out[j].course = agg.log[Nth(kept, j)].data

C16_Witness ==
    /\ agg.op = "enrolled"
    /\ agg.pc = "done"
    /\ Len(agg.items) = 2
    /\ agg.log[1].status = 404
    /\ Len(agg.out) = 1
    /\ agg.out[1].membership = agg.items[2]

\* C17: once the member listing has succeeded, the instructor list has, in
\* member order, exactly one record per member handled so far whose role is
\* Instructor, TeachingAssistant, Grader or CourseBuilder: the fetched user
\* record (with the role) when the details fetch was answered, else the
\* minimal record with the membership's userId, role and embedded name; the
\* operation never raises.
C17_InstructorPerQualifyingMember ==
    (agg.op = "instructors" /\ agg.listing = "ok") =>
        LET kept == {k \in 1..Len(agg.log) :
                        agg.items[k].courseRoleId \in
                          {"Instructor", "TeachingAssistant", "Grader", "CourseBuilder"}}
        IN /\ agg.pc \in {"items", "done"}
           /\ agg.err = NoErr
           /\ agg.items = agg.w.all_results
           /\ Len(agg.log) = IF agg.pc = "done" THEN Len(agg.items) ELSE agg.i - 1
           /\ Len(agg.out) = Cardinality(kept)
           /\ \A j \in 1..Len(agg.out) :
                 LET k == Nth(kept, j)
                     member == agg.items[k]
                     rec == agg.out[j]
                 IN /\ rec.courseRole = member.courseRoleId
                    /\ IF Answered(k)
                       THEN /\ rec.full
                            /\ rec.id = agg.log[k].data.id
                            /\ rec.name = agg.log[k].data.name
                       ELSE /\ ~rec.full
                            /\ rec.userId = member.userId
                            /\ rec.name = member.name

C17_Witness ==
    /\ agg.op = "instructors"
    /\ agg.pc = "done"
    /\ Len(agg.items) = 2
    /\ agg.items[1].courseRoleId = "Student"
    /\ agg.items[2].courseRoleId = "Grader"
    /\ agg.log[2].kind = "neterr"
    /\ Len(agg.out) = 1
    /\ ~agg.out[1].full

\* C18: once the meeting listing has succeeded, the attendance list has
\* exactly one record per meeting handled so far, in meeting order: the
\* server's record when the per-meeting fetch was answered, else a record
\* with status "unknown"; the operation never raises.
C18_RecordPerMeeting ==
    (agg.op = "attendance" /\ agg.listing = "ok") =>
        /\ agg.pc \in {"items", "done", "percentage"}
        /\ agg.err = NoErr
        /\ agg.items = agg.w.all_results
        /\ Len(agg.log) = IF agg.pc = "items" THEN agg.i - 1 ELSE Len(agg.items)
        /\ Len(agg.out) = Len(agg.log)
        /\ \A k \in 1..Len(agg.out) :
              /\ agg.out[k].meeting = agg.items[k]
              /\ IF Answered(k)
                 THEN /\ agg.out[k].status = agg.log[k].data.status
                      /\ agg.out[k].record = agg.log[k].data.meetingId
                 ELSE /\ agg.out[k].status = "unknown"
                      /\ agg.out[k].record = None

C18_Witness ==
    /\ agg.op = "attendance"
    /\ agg.pc = "done"
    /\ Len(agg.items) = 2
    /\ agg.log[1].status = 404
    /\ agg.log[2].status = HTTP_OK
    /\ Len(agg.out) = 2
    /\ agg.out[1].status = "unknown"
    /\ agg.out[2].status = "Present"

\* C19: once the column listing has succeeded, get_course_assignments never
\* raises and has, in column order, exactly one assignment per column handled
\* so far whose grading type is not Calculated, whatever per-item fetch
\* failed: a failed grade fetch gives status NotSubmitted, not submitted, not
\* graded, no score; a column without content id or a failed content fetch
\* gives accepts_late true, else accepts_late is the negation of the
\* content's late-attempt-disallowed flag.
C19_AssignmentPerColumn ==
    (agg.op = "assignments" /\ agg.listing = "ok") =>
        LET kept == {k \in 1..Len(agg.log) : agg.items[k].grading_type # "Calculated"}
            ok(r) == r.kind = "http" /\ r.status = HTTP_OK
        IN /\ agg.pc \in {"items", "done", "counted"}
           /\ agg.err = NoErr
           /\ agg.items = agg.w.all_results
           /\ Len(agg.log) = IF agg.pc = "items" THEN agg.i - 1 ELSE Len(agg.items)
           /\ Len(agg.out) = Cardinality(kept)
           /\ \A j \in 1..Len(agg.out) :
                 LET k == Nth(kept, j)
                     column == agg.items[k]
                     a == agg.out[j]
                 IN /\ a.id = column.id
                    /\ a.grading_type # "Calculated"
                    /\ ~ok(agg.log[k].grade) =>
                          /\ a.status = "NotSubmitted"
                          /\ ~a.submitted
                          /\ ~a.graded
                          /\ ~a.hasScore
                    /\ a.accepts_late =
                          IF column.contentId \in {None, ""} \/ ~ok(agg.log[k].content)
                          THEN TRUE
                          ELSE agg.log[k].content.data.isLateAttemptCreationDisallowed
                                 # "true"

C19_Witness ==
    /\ agg.op = "assignments"
    /\ agg.pc = "done"
    /\ Len(agg.items) = 2
    /\ agg.items[1] = ColTotal
    /\ agg.items[2] = ColContent
    /\ agg.log[2].grade.status = 404
    /\ agg.log[2].content.kind = "neterr"
    /\ Len(agg.out) = 1
    /\ agg.out[1].status = "NotSubmitted"
    /\ agg.out[1].accepts_late

\* the values of (submitted, is_past_due, accepts_late, graded, score)
AssignmentValues ==
    {Assignment(sub, past, late_ok, gr, sc[1], sc[2]) :
        sub \in BOOLEAN, past \in BOOLEAN, late_ok \in BOOLEAN, gr \in BOOLEAN,
        sc \in {<<FALSE, 0>>, <<TRUE, 0>>, <<TRUE, 15>>}}

\* the class C20 gives an assignment
ZeroGrade(a) == a.graded /\ a.hasScore /\ a.score = 0
ClassesOf(a) ==
    {c \in {"on_time", "late", "missed", "available"} :
        \/ c = "missed" /\ ZeroGrade(a)
        \/ c = "on_time" /\ ~ZeroGrade(a) /\ a.submitted /\ ~a.is_past_due
        \/ c = "late" /\ ~ZeroGrade(a) /\ a.submitted /\ a.is_past_due
        \/ c = "missed" /\ ~ZeroGrade(a) /\ ~a.submitted /\ a.is_past_due /\ ~a.accepts_late
        \/ c = "available" /\ ~ZeroGrade(a) /\ ~a.submitted
                           /\ ~(a.is_past_due /\ ~a.accepts_late)}

Spellings(word) ==
    IF word = "present" THEN {"present", "Present", "PRESENT"}
    ELSE IF word = "late" THEN {"late", "Late", "LATE"}
    ELSE IF word = "excused" THEN {"excused", "Excused", "EXCUSED"}
    ELSE {"absent", "Absent", "ABSENT"}

\* the percentage, in hundredths of a percent, is 100 * present / total to
\* two decimals
IsPercentageOf(pct, present, total) ==
    LET d == 100 * pct * total - 1000000 * present
    IN 2 * d <= 100 * total /\ -2 * d <= 100 * total

\* C21: the attendance statistics of a course count every meeting in total,
\* a meeting as present iff its status is present, late or excused whatever
\* its case, as absent iff it is absent, and otherwise (e.g. unknown) in
\* neither; present + absent <= total; the percentage is present / total *
\* 100 (to two decimals), and [present, absent, present, unknown] gives 50.0.
C21_AttendanceBuckets ==
    /\ CourseAttendance("_1_1", <<"present", "absent", "present", "unknown">>).percentage
         = 5000
    /\ (agg.op = "attendance" /\ agg.pc = "percentage") =>
          LET st(k) == agg.out[k].status
              P == {k \in 1..Len(agg.out) :
                      st(k) \in Spellings("present") \cup Spellings("late")
                                \cup Spellings("excused")}
              A == {k \in 1..Len(agg.out) : st(k) \in Spellings("absent")}
          IN /\ agg.stats.total = Len(agg.out)
             /\ agg.stats.present = Cardinality(P)
             /\ agg.stats.absent = Cardinality(A)
             /\ agg.stats.present + agg.stats.absent <= agg.stats.total
             /\ agg.stats.total > 0 =>
                   IsPercentageOf(agg.stats.percentage, agg.stats.present, agg.stats.total)

C21_Witness ==
    /\ agg.op = "attendance"
    /\ agg.pc = "percentage"
    /\ Len(agg.out) = 2
    /\ agg.out[1].status = "Excused"
    /\ agg.out[2].status = "unknown"
    /\ agg.stats.present = 1
    /\ agg.stats.absent = 0
    /\ agg.stats.percentage = 5000

----------------------------------------------------------------------------
(* Properties of the calls over the cached courses *)

\* the cached courses that have an internal id, and the counts of the
\* assignments and meetings handed back for them
Counted == SelectSeq(client.cached_data.courses, LAMBDA c : c.internal_id # None)

RECURSIVE SumSeq(_)
SumSeq(ns) == IF ns = <<>> THEN 0 ELSE Head(ns) + SumSeq(Tail(ns))

OnTimeIn(list) == Cardinality({j \in 1..Len(list) : "on_time" \in ClassesOf(list[j])})
TotalAssignments == SumSeq([k \in 1..Len(Counted) |-> Len(agg.input[Counted[k].internal_id])])
TotalOnTime == SumSeq([k \in 1..Len(Counted) |-> OnTimeIn(agg.input[Counted[k].internal_id])])
TotalMeetings == SumSeq([k \in 1..Len(Counted) |-> Len(agg.input[Counted[k].internal_id])])

\* C22: is_nerd is true exactly when the overall on-time rate, on_time / total
\* summed over the cached courses with an internal id, is strictly greater
\* than 0.45, i.e. 100 * on_time > 45 * total; a rate of exactly 0.45 is false.
C22_NerdIffRateAbove45 ==
    agg.op = "is_nerd" => (agg.flag <=> 100 * TotalOnTime > 45 * TotalAssignments)

\* C23: with zero assignments (zero meetings), for one course, overall, or
\* without a cached profile, the rate (percentage) is exactly 0.0, nothing is
\* raised, and is_nerd / is_attending are false.
C23_ZeroTotals ==
    /\ CourseAssignmentStats("_1_1", <<>>).on_time_rate = 0
    /\ CourseAttendance("_1_1", <<>>).percentage = 0
    /\ \A l \in AssignmentLoads :
          LET r == AssignmentStats(NoCache, l) IN r.on_time_rate = 0 /\ ~IsNerd(r.on_time_rate)
    /\ \A st \in [CourseIds -> StatusLists] :
          LET r == AttendancePercentage(NoCache, st)
          IN r.percentage = 0 /\ ~IsAttending(r.percentage)
    /\ (agg.op = "is_nerd" /\ TotalAssignments = 0) =>
          agg.value = 0 /\ ~agg.flag /\ error = "none"
    /\ (agg.op = "is_attending" /\ TotalMeetings = 0) =>
          agg.value = 0 /\ ~agg.flag /\ error = "none"
    /\ agg.op = "is_nerd" =>
          \A k \in 1..Len(agg.courses) :
              agg.courses[k].total = 0 => agg.courses[k].on_time_rate = 0
    /\ agg.op = "is_attending" =>
          \A k \in 1..Len(agg.courses) :
              agg.courses[k].total = 0 => agg.courses[k].percentage = 0

C23_Witness ==
    /\ agg.op = "is_attending"
    /\ client.cached_data.courses = <<CourseA, CourseB>>
    /\ agg.input["_1_1"] = <<>> /\ agg.input["_2_1"] = <<>>
    /\ Len(agg.courses) = 2
    /\ agg.value = 0
    /\ ~agg.flag

\* C24: when is_nerd (is_attending) has computed its flag and the cache file
\* can be read and written, the file then holds isNerd and on_time_rate
\* (isAttending and attendance_percentage) as just computed, the flag being
\* (rate > 0.45) (percentage > 60), and every other field is unchanged, so
\* is_nerd followed by is_attending leaves all four set; when the read or
\* the write fails the flag is still returned and nothing is raised.
C24_MetricPersisted ==
    [][ LET old == fs[CfgPath]
            new == fs'[CfgPath]
            usable == old.exists /\ old.valid_json /\ agg'.io = "ok"
        IN /\ (agg'.op = "is_nerd" /\ usable) =>
                 /\ new.nerd = Metric(agg'.flag, agg'.value)
                 /\ new.nerd.flag = (new.nerd.value > 45)
                 /\ [new EXCEPT !.nerd = old.nerd] = old
           /\ (agg'.op = "is_attending" /\ usable) =>
                 /\ new.attending = Metric(agg'.flag, agg'.value)
                 /\ new.attending.flag = (new.attending.value > 6000)
                 /\ [new EXCEPT !.attending = old.attending] = old
           /\ (agg.op = "is_nerd" /\ old.nerd.has /\ agg'.op = "is_attending" /\ usable) =>
                 new.nerd.has /\ new.attending.has
           /\ (agg'.op \in {"is_nerd", "is_attending"} /\ ~usable) =>
                 /\ error' = "none"
                 /\ agg'.flag \in BOOLEAN
                 /\ agg'.flag = IF agg'.op = "is_nerd" THEN agg'.value > 45
                                 ELSE agg'.value > 6000
      ]_vars

C24_Witness ==
    /\ agg.op = "is_attending" /\ agg.io = "ok"
    /\ fs[CfgPath].nerd = Metric(FALSE, 45)
    /\ fs[CfgPath].attending = Metric(TRUE, 10000)
    /\ fs[CfgPath].courses = <<CourseA, CourseB>>
    /\ fs[CfgPath].cookies = <<Cookie(0)>>

\* C25: a cached course without internal_id is skipped by get_assignments,
\* get_assignment_stats and get_attendance_percentage: no remote call for
\* it, nothing raised, no entry for it in the result, nothing added to the
\* overall counts, and the other courses handled as if it were not cached.
C25_SkipsCoursesWithoutInternalId ==
    agg.op # "none" =>
        LET ids == [k \in 1..Len(Counted) |-> Counted[k].internal_id]
            without == [client.cached_data EXCEPT !.courses = Counted]
        IN /\ agg.calls = ids
           /\ error = "none"
           /\ agg.op = "get_assignments" =>
                 /\ \A j \in 1..Len(agg.out) : agg.out[j].course_id \in Range(ids)
                 /\ Len(agg.out) = TotalAssignments
                 /\ agg.out = Assignments(without, agg.input)
           /\ agg.op = "is_nerd" =>
                 /\ [k \in 1..Len(agg.courses) |-> agg.courses[k].course_id] = ids
                 /\ SumOver(agg.courses, "total") = TotalAssignments
                 /\ agg.courses = AssignmentStats(without, agg.input).courses
                 /\ agg.value = AssignmentStats(without, agg.input).on_time_rate
           /\ agg.op = "is_attending" =>
                 /\ [k \in 1..Len(agg.courses) |-> agg.courses[k].course_id] = ids
                 /\ SumOver(agg.courses, "total") = TotalMeetings
                 /\ agg.courses = AttendancePercentage(without, agg.input).courses
                 /\ agg.value = AttendancePercentage(without, agg.input).percentage

C25_Witness ==
    /\ agg.op = "get_assignments"
    /\ client.cached_data.courses = <<CourseA, CourseOld, CourseB>>
    /\ agg.calls = <<"_1_1", "_2_1">>
    /\ Len(agg.out) = 11
    /\ agg.out[6].course_id = "_2_1"

----------------------------------------------------------------------------
(* Properties of the cache file: loading, parsing, agreement with the client *)

\* C26: load_id_file raises an AuthError naming the file when the file is
\* missing or is not valid JSON; a construction from an existing but
\* malformed cache file fails with that AuthError without any login, even
\* with credentials supplied and auto_refresh enabled.
C26_MalformedFileRaises ==
    /\ \A p \in Paths :
          /\ LoadIdFile(NoFile, p).ok = FALSE
          /\ LoadIdFile(NoFile, p).err.kind = "AuthError"
          /\ LoadIdFile(NoFile, p).err.file = p
          /\ LoadIdFile(MalformedFile, p).ok = FALSE
          /\ LoadIdFile(MalformedFile, p).err.kind = "AuthError"
          /\ LoadIdFile(MalformedFile, p).err.file = p
    /\ (h.op = "init" /\ h.initBranch = "file" /\ ~h.fs0[h.args.id_path].valid_json) =>
          /\ pc = "raised"
          /\ error = "AuthError:load"
          /\ h.loadError.kind = "AuthError"
          /\ h.loadError.file = h.args.id_path
          /\ h.loginCalls = 0
          /\ h.refreshCalls = 0
          /\ h.apiCalls = 0
          /\ fs = h.fs0

C26_Witness ==
    /\ pc = "raised"
    /\ h.loadError.what = "invalid_format"
    /\ h.loadError.file = CfgPath
    /\ h.args.username = "u1" /\ h.args.password = "pw1" /\ h.args.auto_refresh
    /\ h.loginCalls = 0

\* the name/value pairs of a sequence of cookies
NameValues(cookies) == {<<cookies[i].name, cookies[i].value>> : i \in 1..Len(cookies)}

\* C27: a cache file whose cookies are a legacy name -> value mapping loads
\* to a session with the same cookie names and values as the file holding
\* the list-of-objects form of the same pairs, and to the same cached profile.
C27_LegacyCookiesEquivalent ==
    (h.op = "init" /\ h.initBranch = "file" /\ pc = "validate"
       /\ ~IsList(h.fs0[h.args.id_path].cookies)) =>
        LET file == h.fs0[h.args.id_path]
            listed == [file EXCEPT !.cookies = ListForm(file.cookies)]
        IN /\ NameValues(client.session.cookies) = NameValues(file.cookies)
           /\ Len(client.session.cookies) = Len(file.cookies)
           /\ NameValues(client.session.cookies) = NameValues(LoadSession(listed).cookies)
           /\ Len(client.session.cookies) = Len(LoadSession(listed).cookies)
           /\ client.cached_data = LoadCachedData(listed)

C27_Witness ==
    /\ pc = "validate"
    /\ h.initBranch = "file"
    /\ ~IsList(fs[CfgPath].cookies)
    /\ Len(client.session.cookies) = 2
    /\ client.session.cookies[1].name = "JSESSIONID"
    /\ client.session.cookies[1].value = 7
    /\ client.cached_data.courses = <<CourseOld>>

\* the text before and the text after the first "__" of a text that has one
FirstSep(text) == CHOOSE i \in 1..Len(text) :
                    text[i] = SEP /\ \A j \in 1..(i - 1) : text[j] # SEP
BeforeFirstSep(text) == SubSeq(text, 1, FirstSep(text) - 1)
AfterFirstSep(text) == SubSeq(text, FirstSep(text) + 1, Len(text))
HasSep(text) == \E i \in 1..Len(text) : text[i] = SEP

\* C28: parse_course_info splits a course name on its first "__": the clean
\* name is the text before it and the section label the text after it; a
\* name without "__" parses to itself with a null section; the course id is
\* cut at its first "__"; also for names with more than one "__".
C28_ParseSplitsOnFirstSeparator ==
    \A k \in 1..Len(h.parsed) :
        LET p == h.parsed[k]
        IN /\ HasSep(p.course_name) =>
                 /\ p.info.name = BeforeFirstSep(p.course_name)
                 /\ p.info.class_name = AfterFirstSep(p.course_name)
           /\ ~HasSep(p.course_name) =>
                 /\ p.info.name = p.course_name
                 /\ p.info.class_name = NoText
           /\ p.info.course_id = IF HasSep(p.course_id) THEN BeforeFirstSep(p.course_id)
                                  ELSE p.course_id

\* C29: after a successful refresh, by either path, the cached profile of the
\* client agrees with the file: its user and courses are what load_id_file
\* would return for the file.
C29_ProfileAgreesWithFile ==
    (pc = "ready" /\ error = "none" /\ h.wrote # "none") =>
        LET loaded == LoadIdFile(fs[client.id_path], client.id_path)
        IN /\ loaded.ok
           /\ client.cached_data.user = loaded.cached_data.user
           /\ client.cached_data.courses = loaded.cached_data.courses

\* C30: a construction from an existing cache file whose session passes the
\* validation completes without a login and without writing the cache file,
\* whatever auto_refresh and the credentials supplied are.
C30_ValidSessionNoLoginNoWrite ==
    (h.op = "init" /\ h.initBranch = "file" /\ h.initProbe = "ok") =>
        /\ pc = "ready"
        /\ error = "none"
        /\ h.loginCalls = 0
        /\ h.refreshCalls = 0
        /\ h.wrote = "none"
        /\ fs = h.fs0
        /\ client.id_path = h.args.id_path

C30_Witness ==
    /\ h.op = "init" /\ h.initBranch = "file" /\ h.initProbe = "ok"
    /\ pc = "ready"
    /\ h.args.auto_refresh
    /\ h.args.username = "u1" /\ h.args.password = "pw1"
    /\ fs[CfgPath].exists
    /\ fs = h.fs0

----------------------------------------------------------------------------
(* Properties of the full regeneration and of the produced assignments *)

\* C31: the full regeneration writes the cache file only after the
\* current-user, enrolled-courses and instructor fetches have all succeeded;
\* if one of them raises, the error leaves the refresh, no cache file is
\* created or changed, and the cached profile of the client is unchanged.
C31_RegenerationWritesAfterFetches ==
    [][ (pc = "write" /\ ~(Truthy(client.id_path) /\ fs[client.id_path].exists)) =>
          /\ fs' # fs => (h'.apiCalls = h.apiCalls + 3 /\ error' = "none" /\ pc' = "nerd")
          /\ pc' # "nerd" =>
                /\ error' = "APIError"
                /\ pc' = Fail(h.op)
                /\ fs' = fs
                /\ fs' = h'.fs0
                /\ client'.cached_data = client.cached_data
                /\ client'.id_path = client.id_path
      ]_vars

C31_Witness ==
    /\ pc = "raised"
    /\ error = "APIError"
    /\ h.op = "init"
    /\ h.loginResult = "ok"
    /\ h.wrote = "none"
    /\ h.apiCalls >= 3
    /\ fs = h.fs0
    /\ ~client.cached_data.has

\* C32: the record written by a full regeneration has a `credentials` entry,
\* holding the upper-cased login username and the password, exactly when the
\* client holds both a username and a password; otherwise the key is
\* omitted.  So a client later constructed from that file alone can
\* auto-refresh whenever the generating client had credentials.
C32_CredentialsWritten ==
    h.wrote = "generated" =>
        LET file == fs[client.id_path]
            both == Truthy(client.username) /\ Truthy(client.password)
            later == RecoverCredentials(file.credentials, None, None)
        IN /\ file.credentials = IF both THEN Creds(Upper(client.username), client.password)
                                  ELSE NoCreds
           /\ both => AutoRefreshes(TRUE, later.username, later.password)

\* the sum of one count over the per-course entries of a result
SumOfCourses(field) == SumSeq([k \in 1..Len(agg.courses) |-> agg.courses[k][field]])

\* C33: in every per-course and overall assignment-stats result on_time +
\* late + missed + available = total; each overall count is the sum of the
\* per-course counts over the courses listed in the result; and the overall
\* attendance percentage is computed from the summed present and total
\* counts, not as the mean of the per-course percentages.
C33_OverallIsSumOfCourses ==
    /\ agg.op = "is_nerd" =>
          /\ \A k \in 1..Len(agg.courses) :
                LET c == agg.courses[k]
                IN c.on_time + c.late + c.missed + c.available = c.total
          /\ agg.overall.on_time + agg.overall.late + agg.overall.missed
                + agg.overall.available = agg.overall.total
          /\ \A f \in {"total", "on_time", "late", "missed", "available"} :
                agg.overall[f] = SumOfCourses(f)
    /\ agg.op = "is_attending" =>
          /\ \A f \in {"present", "absent", "total"} : agg.overall[f] = SumOfCourses(f)
          /\ agg.overall.total > 0 =>
                IsPercentageOf(agg.value, SumOfCourses("present"), SumOfCourses("total"))
          /\ agg.overall.total = 0 => agg.value = 0

C33_Witness ==
    /\ agg.op = "is_attending"
    /\ Len(agg.courses) = 2
    /\ agg.courses[1].percentage = 5000
    /\ agg.courses[2].percentage = 10000
    /\ agg.overall.present = 5
    /\ agg.overall.total = 7
    /\ agg.value = 7143

\* C34: every assignment produced by get_course_assignments has graded =>
\* submitted, and is submitted exactly when the grade fetch succeeded and
\* returned a non-empty status or a non-null score; so the classification
\* branches for an assignment that is not submitted (missed by policy,
\* available) are reached only when it is not graded.
C34_GradedImpliesSubmitted ==
    (agg.op = "assignments" /\ agg.listing = "ok") =>
        LET kept == {k \in 1..Len(agg.log) : agg.items[k].grading_type # "Calculated"}
            ok(r) == r.kind = "http" /\ r.status = HTTP_OK
        IN \A j \in 1..Len(agg.out) :
              LET a == agg.out[j]
                  g == agg.log[Nth(kept, j)].grade
              IN /\ a.graded => a.submitted
                 /\ a.submitted <=>
                       (ok(g) /\ (g.data.status \notin {None, ""} \/ g.data.hasScore))
                 /\ (~ZeroGrade(a) /\ ~a.submitted) =>
                       /\ ~a.graded
                       /\ ClassifyAssignment(a) \in {"missed", "available"}

C34_Witness ==
    /\ agg.op = "assignments"
    /\ agg.pc = "done"
    /\ Len(agg.out) = 2
    /\ agg.log[1].grade.kind = "http" /\ agg.log[1].grade.status = HTTP_OK
    /\ agg.log[1].grade.data.status = None /\ agg.log[1].grade.data.hasScore
    /\ agg.out[1].graded /\ agg.out[1].submitted
    /\ agg.log[2].grade.kind = "http" /\ agg.log[2].grade.status = HTTP_OK
    /\ agg.log[2].grade.data.status = ""
    /\ ~agg.out[2].submitted /\ ~agg.out[2].graded

====
